---- MODULE Spec2Model ----
(***************************************************************************)
(* Client-side data-freshness core of the HoloProject dashboard:           *)
(* the state store (src/src/state/appState.js), the per-stream request     *)
(* serials and loaders, the in-flight map of live requests and the clip    *)
(* cache (src/app.js).                                                     *)
(*                                                                         *)
(* One step of the model is one macrotask of the browser's event loop: a   *)
(* UI event handler or timer callback run up to its first network await,   *)
(* or the arrival of one network response together with every promise     *)
(* continuation it releases.                                               *)
(***************************************************************************)
EXTENDS Integers, Sequences, FiniteSets, TLC

VARIABLES
    appState,              \* _state of appState.js
    requestSerials,        \* requestSerials of app.js
    container,             \* what each stream's container element shows
    pagination,            \* pages offered by each *-pagination element (0: none)
    inFlightLiveRequests,  \* request key -> pending shared live request
    clipCache,             \* the Map, as the sequence of its entries in iteration order
    isAutoRefreshInFlight,
    isLivePollingInFlight,
    knownStreamIds,
    pendingLoads,          \* loadX invocations suspended at their await, oldest first
    pollWait,              \* id of the live request the polling callback awaits (0: none)
    fetches,               \* network requests not answered yet, oldest first
    now,                   \* Date.now(), in ticks
    nextId,                \* history: next id for a load or a request
    dispatched,            \* history: number of loadX invocations per stream
    netCalls,              \* history: number of network requests issued per stream
    lastUser,              \* history: id of the last load a handler started, per stream
    loadLimit,             \* the loads and polls the handlers of this behaviour may start
    putLog,                \* history: the keys stored so far, while they are distinct,
                           \*   unexpired and not looked up in between
    ev,                    \* history: the clip cache operation of the last step
    touches,               \* history: the keys the clip cache holds, least recently
                           \*   touched first, each with its last touch, the payload
                           \*   of its last put and the query that put it
    store,                 \* appState.js with its objects told apart: _state, the
                           \*   arrays its fields refer to, INITIAL_STATE, and the
                           \*   snapshot a caller holds
    selectedQuickYears,    \* the years selected in the date tab, not applied yet
    selectedQuickMonths,   \* the months selected in the date tab, not applied yet
    selectedDates,         \* the dates selected in the calendar, not applied yet
    monthClickListeners,   \* click listeners registered on each month button
    quickSelectBaseYear,   \* first year of the three year buttons on display
    call,                  \* history: the last call of a function checked on its own,
                           \*   with its arguments and its result
    documentHidden,        \* document.hidden
    refreshInterval,       \* handle of the auto-refresh interval (0: null)
    pollingInterval,       \* handle of the live polling interval (0: null)
    timers,                \* the intervals the browser runs, and its next handle
    sync,                  \* syncPollInterval, the sync requests in flight and the
                           \*   timeouts that end the sync overlay
    profile                \* the channel profile panel, the channel infos cached in
                           \*   localStorage and the channel info requests in flight

vars == <<appState, requestSerials, container, pagination, inFlightLiveRequests,
          clipCache, isAutoRefreshInFlight, isLivePollingInFlight, knownStreamIds,
          pendingLoads, pollWait, fetches, now, nextId, dispatched, netCalls,
          lastUser, loadLimit, putLog, ev, touches, store, selectedQuickYears,
          selectedQuickMonths, selectedDates, monthClickListeners, quickSelectBaseYear, call,
          documentHidden, refreshInterval, pollingInterval, timers, sync, profile>>

(***************************************************************************)
(* Bounds of the model.                                                    *)
(***************************************************************************)
\* loads and polls the handlers start in one behaviour
MaxLoads == 2
\* the same, in the behaviours that follow a request through a page redirect
MaxDeepLoads == 3
\* the same, in the behaviours that fill the clip cache
MaxCacheLoads == 3
\* ticks the clock advances in one behaviour
MaxTime == 3
\* the same, in the behaviours that store one key twice and two more
MaxLruLoads == 4
\* the same, in the behaviours that type search texts into the clips view
MaxKeyLoads == 3
\* arrays created in one behaviour of the state store
MaxObjects == 2
\* elements a caller pushes onto one array
MaxArrayLen == 1
\* entries the clip cache may hold (CLIP_CACHE_MAX_ENTRIES, 300 in the source)
MaxEntries == 2
\* lifetime of a clip cache entry in ticks (CLIP_CACHE_TTL, 5 minutes in the source)
TtlTicks == 2
\* loads the handlers start in one behaviour of the filter panel
MaxFilterLoads == 4
\* the same, in the behaviours of the date tab
MaxQuickLoads == 3
\* the same, in the behaviours that apply one filter again
MaxReloadLoads == 3
\* loads and polls in one behaviour of the timers
MaxPollLoads == 3
\* handles setInterval hands out in one behaviour
MaxTimers == 6
\* sync requests one page issues
MaxSyncRequests == 3
\* loads in one behaviour in which every request settles
MaxSettlingLoads == 3
\* loads in one behaviour of the archive view
MaxOnScreenLoads == 4
\* loads a handler starts in one behaviour of the page-overflow redirect
MaxRedirectLoads == 3
\* channel selections in one behaviour of the profile panel
MaxProfileLoads == 3
\* reloads of the page in one behaviour
MaxPageReloads == 1
\* loads of one page next to a sync
MaxSyncLoads == 1
\* the same, in the behaviours that apply the quick selection twice
MaxYearLoads == 5
\* clicks on the date tab in one behaviour
MaxDateTabClicks == 2
\* the year of the clock of the browser, and how far the year buttons move
CurrentYear == 2026
MaxYearShift == 2
\* the page counters of the states whose hash is written and read back
MaxPage == 12
\* the pages a pagination element is rendered for
MaxTotalPages == 13
\* clicks on the collaborator checkboxes before the apply button
MaxClicks == 3

(***************************************************************************)
(* Program constants and input domains.                                    *)
(***************************************************************************)
ITEMS_PER_PAGE == 32
CLIP_CACHE_MAX_ENTRIES == MaxEntries
CLIP_CACHE_TTL == TtlTicks

CHANNELS == <<"chA", "chB">>
Channels == {CHANNELS[i] : i \in DOMAIN CHANNELS}
DefaultChannelId == CHANNELS[1]
Views == {"home", "live", "archive", "clips"}
Streams == {"live", "archive", "clips"}
VideoTypes == {"all", "music"}
Langs == {"all", "ja"}

\* JavaScript values of the collection-valued state fields
JsStr(s) == [t |-> "str", v |-> s]
JsArr(s) == [t |-> "arr", v |-> s]
JsNull == [t |-> "null", v |-> <<>>]
Truthy(x) == x.t = "arr" \/ (x.t = "str" /\ x.v # <<>>)

\* search texts, as sequences of characters; the search box hands them over trimmed
NoQuery == <<>>
Queries == {NoQuery, <<"m">>}

\* what the user may leave in the search box
SearchInputs ==
    {<<>>, <<"m", ":">>, <<" ", "m">>}

RECURSIVE TrimLeft(_)
TrimLeft(s) == IF s # <<>> /\ Head(s) = " " THEN TrimLeft(Tail(s)) ELSE s
RECURSIVE TrimRight(_)
TrimRight(s) ==
    IF s # <<>> /\ s[Len(s)] = " " THEN TrimRight(SubSeq(s, 1, Len(s) - 1)) ELSE s
Trim(s) == TrimRight(TrimLeft(s))

Max(a, b) == IF a >= b THEN a ELSE b
CeilDiv(a, b) == (a + b - 1) \div b

(***************************************************************************)
(* The state store.                                                        *)
(***************************************************************************)
INITIAL_STATE ==
    [ archivePage |-> 1,
      clipsPage |-> 1,
      clipLang |-> "all",
      collabFilter |-> JsStr(<<>>),
      collabMode |-> "undefined",
      currentSearchQuery |-> NoQuery,
      currentChannelId |-> "null",
      currentView |-> "home",
      isSyncing |-> FALSE,
      hideUnarchived |-> FALSE,
      filterDates |-> JsArr(<<>>),
      filterYears |-> JsNull,
      filterMonths |-> JsNull,
      videoType |-> "all" ]

\* the fields that hold arrays
ArrayFields == {"collabFilter", "filterDates", "filterYears", "filterMonths"}

\* Object.is(_state[key], updates[key]): an array literal handed to setState is
\* a new object, never the one the state holds
ObjectIs(k, old, new) ==
    IF k \in ArrayFields THEN old = new /\ new.t # "arr" ELSE old = new

SetState(st, updates) ==
    LET changed == \E k \in DOMAIN updates : ~ObjectIs(k, st[k], updates[k])
    IN  IF ~changed
        THEN st
        ELSE [k \in DOMAIN st |-> IF k \in DOMAIN updates THEN updates[k] ELSE st[k]]

(***************************************************************************)
(* The state store with object identity: a field that holds an array holds *)
(* a reference to it, and two arrays with the same elements are two        *)
(* objects.  The handlers above use the store by value (SetState); the     *)
(* definitions below tell apart what the spread copies share.              *)
(***************************************************************************)
\* a reference to the array heap[id], and an array literal not evaluated yet
Ref(id) == [t |-> "obj", v |-> <<id>>]
Lit(elems) == [t |-> "lit", v |-> elems]
IsRef(x) == x.t = "obj"

\* Object.freeze({...}): the fields as the module creates them; the one array
\* among them, filterDates: [], is the first object of the heap
FROZEN_INITIAL_STATE ==
    [k \in DOMAIN INITIAL_STATE |->
        IF k \in ArrayFields /\ INITIAL_STATE[k].t = "arr" THEN Ref(1) ELSE INITIAL_STATE[k]]

\* the state a record of fields stands for, arrays by their elements
View(heap, st) ==
    [k \in DOMAIN st |->
        IF k \in ArrayFields /\ IsRef(st[k]) THEN JsArr(heap[st[k].v[1]]) ELSE st[k]]

\* Object.is on two values of the field k
StoreObjectIs(k, a, b) ==
    IF k \in ArrayFields THEN a.t = b.t /\ a.v = b.v ELSE a = b

\* the JavaScript value a field value stands for, an array by its elements
Deref(heap, k, x) == IF k \in ArrayFields /\ IsRef(x) THEN JsArr(heap[x.v[1]]) ELSE x

\* the last call of the store or act of the caller: whether it bound _state to
\* a new object, whether its argument was an object, and the updates handed over
NoStoreOp == [name |-> "none", replaced |-> FALSE, object |-> FALSE, keys |-> {}, p |-> <<>>]

\* let _state = { ...INITIAL_STATE }, and a caller that has asked for the state
StoreConstructed ==
    [ state |-> FROZEN_INITIAL_STATE,
      initial |-> FROZEN_INITIAL_STATE,
      heap |-> << <<>> >>,
      snap |-> FROZEN_INITIAL_STATE,
      op |-> NoStoreOp ]

\* getState: { ..._state }, a new object with the same field values
StoreGetState(s) ==
    [s EXCEPT !.snap = s.state,
              !.op = [name |-> "getState", replaced |-> FALSE, object |-> FALSE, keys |-> {}, p |-> <<>>]]

\* setState without its test for a change
StoreSetStateAlways(s, arg) ==
    IF ~arg.object
    THEN [s EXCEPT !.snap = s.state,
                   !.op = [name |-> "setState", replaced |-> FALSE, object |-> FALSE,
                           keys |-> {}, p |-> <<>>]]
    ELSE LET merged == [k \in DOMAIN s.state |->
                            IF k \in DOMAIN arg.p THEN arg.p[k] ELSE s.state[k]]
         IN  [s EXCEPT !.state = merged, !.snap = merged,
                       !.op = [name |-> "setState", replaced |-> TRUE, object |-> TRUE,
                               keys |-> DOMAIN arg.p, p |-> arg.p]]

\* setState replacing the state by the defaults with the updates on top
StoreSetStateFromDefaults(s, arg) ==
    IF ~arg.object
    THEN [s EXCEPT !.snap = s.state,
                   !.op = [name |-> "setState", replaced |-> FALSE, object |-> FALSE,
                           keys |-> {}, p |-> <<>>]]
    ELSE LET changed == \E k \in DOMAIN arg.p : ~StoreObjectIs(k, s.state[k], arg.p[k])
             merged == [k \in DOMAIN s.state |->
                            IF k \in DOMAIN arg.p THEN arg.p[k] ELSE s.initial[k]]
         IN  IF ~changed
             THEN [s EXCEPT !.snap = s.state,
                            !.op = [name |-> "setState", replaced |-> FALSE,
                                    object |-> TRUE, keys |-> DOMAIN arg.p, p |-> arg.p]]
             ELSE [s EXCEPT !.state = merged, !.snap = merged,
                            !.op = [name |-> "setState", replaced |-> TRUE,
                                    object |-> TRUE, keys |-> DOMAIN arg.p, p |-> arg.p]]

\* setState(updates): arg.object is false for an argument that is missing or
\* not an object, else arg.p holds the updates, arrays by reference
StoreSetState(s, arg) ==
    IF ~arg.object
    THEN [s EXCEPT !.snap = s.state,
                   !.op = [name |-> "setState", replaced |-> FALSE, object |-> FALSE,
                           keys |-> {}, p |-> <<>>]]
    ELSE LET changed == \E k \in DOMAIN arg.p : ~StoreObjectIs(k, s.state[k], arg.p[k])
             merged == [k \in DOMAIN s.state |->
                            IF k \in DOMAIN arg.p THEN arg.p[k] ELSE s.state[k]]
         IN  IF ~changed
             THEN [s EXCEPT !.snap = s.state,
                            !.op = [name |-> "setState", replaced |-> FALSE,
                                    object |-> TRUE, keys |-> DOMAIN arg.p, p |-> arg.p]]
             ELSE [s EXCEPT !.state = merged, !.snap = merged,
                            !.op = [name |-> "setState", replaced |-> TRUE,
                                    object |-> TRUE, keys |-> DOMAIN arg.p, p |-> arg.p]]

\* resetState: _state = { ...INITIAL_STATE }
StoreResetState(s) ==
    [s EXCEPT !.state = s.initial, !.snap = s.initial,
              !.op = [name |-> "resetState", replaced |-> TRUE, object |-> FALSE,
                      keys |-> {}, p |-> <<>>]]

\* the caller evaluates the array literals of its argument, first to last
ArrayFieldOrder == <<"collabFilter", "filterDates", "filterYears", "filterMonths">>

RECURSIVE Evaluate(_, _, _)
Evaluate(heap, p, i) ==
    IF i > Len(ArrayFieldOrder) THEN [heap |-> heap, p |-> p]
    ELSE LET k == ArrayFieldOrder[i]
         IN  IF k \in DOMAIN p /\ p[k].t = "lit"
             THEN Evaluate(Append(heap, p[k].v), [p EXCEPT ![k] = Ref(Len(heap) + 1)], i + 1)
             ELSE Evaluate(heap, p, i + 1)

\* updates a caller may hand to setState, given the snapshot it holds
StoreUpdates(snap) ==
    {[archivePage |-> 2],
     [filterDates |-> Lit(<<>>)], [filterDates |-> Lit(<<"d1">>)],
     [filterDates |-> snap.filterDates],
     [filterYears |-> Lit(<<"2024">>)],
     [filterYears |-> snap.filterYears, filterMonths |-> snap.filterMonths],
     [hideUnarchived |-> TRUE, archivePage |-> 1],
     [currentSearchQuery |-> NoQuery, archivePage |-> 1, clipsPage |-> 1]}

(***************************************************************************)
(* The machine: the program's variables gathered in one record, so that a  *)
(* handler is the composition of the calls it makes.                       *)
(***************************************************************************)
\* a step performs at most one operation on the clip cache: getClips looks up
\* before its await and stores after it
\* found, expiry: whether a lookup found an entry for the key, and its expiry
\* hit, data: whether the lookup returned a payload, and the payload's items
\* dropped: the number of entries the operation deleted
\* args: the query of the operation, as getClipCacheKey normalises it
NoCall == [fn |-> "none", args |-> <<>>, result |-> <<>>]

timerVars == <<documentHidden, refreshInterval, pollingInterval, timers>>

NoCacheOp ==
    [op |-> "none", key |-> <<>>, found |-> FALSE, expiry |-> 0, hit |-> FALSE,
     data |-> <<>>, dropped |-> 0, args |-> <<>>]

Cur ==
    [ appState |-> appState,
      requestSerials |-> requestSerials,
      container |-> container,
      pagination |-> pagination,
      inFlightLiveRequests |-> inFlightLiveRequests,
      clipCache |-> clipCache,
      isAutoRefreshInFlight |-> isAutoRefreshInFlight,
      pendingLoads |-> pendingLoads,
      fetches |-> fetches,
      nextId |-> nextId,
      dispatched |-> dispatched,
      netCalls |-> netCalls,
      lastUser |-> lastUser,
      now |-> now,
      putLog |-> putLog,
      touches |-> touches,
      selectedQuickYears |-> selectedQuickYears,
      selectedQuickMonths |-> selectedQuickMonths,
      selectedDates |-> selectedDates,
      monthClickListeners |-> monthClickListeners,
      quickSelectBaseYear |-> quickSelectBaseYear,
      profile |-> profile,
      cacheOp |-> NoCacheOp ]

Commit(m) ==
    /\ appState' = m.appState
    /\ requestSerials' = m.requestSerials
    /\ container' = m.container
    /\ pagination' = m.pagination
    /\ inFlightLiveRequests' = m.inFlightLiveRequests
    /\ clipCache' = m.clipCache
    /\ isAutoRefreshInFlight' = m.isAutoRefreshInFlight
    /\ pendingLoads' = m.pendingLoads
    /\ fetches' = m.fetches
    /\ nextId' = m.nextId
    /\ dispatched' = m.dispatched
    /\ netCalls' = m.netCalls
    /\ lastUser' = m.lastUser
    /\ putLog' = m.putLog
    /\ touches' = m.touches
    /\ ev' = m.cacheOp
    /\ store' = store
    /\ selectedQuickYears' = m.selectedQuickYears
    /\ selectedQuickMonths' = m.selectedQuickMonths
    /\ selectedDates' = m.selectedDates
    /\ monthClickListeners' = m.monthClickListeners
    /\ quickSelectBaseYear' = m.quickSelectBaseYear
    /\ profile' = m.profile
    /\ call' = call
    /\ UNCHANGED <<timerVars, sync>>

WithState(m, updates) == [m EXCEPT !.appState = SetState(m.appState, updates)]

(***************************************************************************)
(* Containers, suspended loads and network requests.                       *)
(***************************************************************************)
EmptyContainer ==
    [kind |-> "initial", load |-> 0, root |-> 0, channelId |-> "null", page |-> 0,
     items |-> <<>>]

\* container.innerHTML = ... by the load `l`
Show(m, l, kind, items) ==
    [m EXCEPT !.container[l.stream] =
        [kind |-> kind, load |-> l.id, root |-> l.root, channelId |-> l.channelId,
         page |-> l.page, items |-> items]]

\* the load that starts now: ++requestSerials[stream], and the loading text
\* root = 0 marks a load started by a handler; a reload started by a response
\* hands down the root of the load that received the response
NewLoadSharedSerial(m, stream, channelId, page, root, auto) ==
    [id |-> m.nextId,
     stream |-> stream,
     serial |-> IF stream = "live" /\ <<channelId>> \in DOMAIN m.inFlightLiveRequests
                THEN m.requestSerials[stream]
                ELSE m.requestSerials[stream] + 1,
     channelId |-> channelId,
     page |-> page,
     isSyncing |-> m.appState.isSyncing,
     root |-> IF root = 0 THEN m.nextId ELSE root,
     auto |-> auto,
     fetch |-> 0]

NewLoad(m, stream, channelId, page, root, auto) ==
    [id |-> m.nextId,
     stream |-> stream,
     serial |-> m.requestSerials[stream] + 1,
     channelId |-> channelId,
     page |-> page,
     isSyncing |-> m.appState.isSyncing,
     root |-> IF root = 0 THEN m.nextId ELSE root,
     auto |-> auto,
     fetch |-> 0]

BeginLoad(m, l) ==
    Show([m EXCEPT !.requestSerials[l.stream] = l.serial,
                   !.nextId = @ + 1,
                   !.dispatched[l.stream] = @ + 1,
                   !.lastUser[l.stream] = IF l.root = l.id THEN l.id ELSE @],
         l, "loading", <<>>)

Suspend(m, l, fetchId) ==
    [m EXCEPT !.pendingLoads = Append(@, [l EXCEPT !.fetch = fetchId])]

\* serial !== requestSerials[stream] is false
SerialIsCurrent(m, l) == l.serial = m.requestSerials[l.stream]

MapPut(f, k, x) == [j \in DOMAIN f \cup {k} |-> IF j = k THEN x ELSE f[j]]
MapDelete(f, k) == [j \in DOMAIN f \ {k} |-> f[j]]

(***************************************************************************)
(* The live stream.                                                        *)
(***************************************************************************)
VUpcoming == [id |-> "v1", status |-> "upcoming", start |-> 1]
VLive == [id |-> "v2", status |-> "live", start |-> 2]
\* what fetchFromApi('/live') may return: null on any failure, else the list
LiveResponses ==
    { [ok |-> FALSE, body |-> <<>>],
      [ok |-> TRUE, body |-> <<VUpcoming>>],
      [ok |-> TRUE, body |-> <<VUpcoming, VLive>>] }

\* the comparator of results.sort: a before b
LiveBefore(a, b) ==
    IF a.status = "live" /\ b.status # "live" THEN TRUE
    ELSE IF a.status # "live" /\ b.status = "live" THEN FALSE
    ELSE a.start < b.start

RECURSIVE InsertStream(_, _)
InsertStream(sorted, x) ==
    IF sorted = <<>> THEN <<x>>
    ELSE IF LiveBefore(x, Head(sorted)) THEN <<x>> \o sorted
    ELSE <<Head(sorted)>> \o InsertStream(Tail(sorted), x)

RECURSIVE SortStreams(_)
SortStreams(s) ==
    IF s = <<>> THEN <<>> ELSE InsertStream(SortStreams(SubSeq(s, 1, Len(s) - 1)), s[Len(s)])

\* the value the shared request promise resolves to
LiveValue(resp) == IF ~resp.ok THEN <<>> ELSE SortStreams(resp.body)

\* getLiveStreams up to its await: the id of the request the caller awaits
\* caller: the id of the calling load or polling tick, which names a new request
GetLiveStreamsNoCoalescing(m, key, caller) ==
    [m |-> [m EXCEPT !.inFlightLiveRequests = MapPut(@, key, caller),
                     !.fetches = Append(@, [id |-> caller, stream |-> "live", key |-> key]),
                     !.netCalls["live"] = @ + 1],
     fetch |-> caller]

GetLiveStreams(m, key, caller) ==
    IF key \in DOMAIN m.inFlightLiveRequests
    THEN [m |-> m, fetch |-> m.inFlightLiveRequests[key]]
    ELSE [m |-> [m EXCEPT !.inFlightLiveRequests = MapPut(@, key, caller),
                          !.fetches = Append(@, [id |-> caller, stream |-> "live",
                                                key |-> key]),
                          !.netCalls["live"] = @ + 1],
          fetch |-> caller]

\* the finally block of the call that created the request
LiveRequestSettledKeepsKey(map, key, fetchId) == map

LiveRequestSettled(map, key, fetchId) ==
    IF key \in DOMAIN map /\ map[key] = fetchId THEN MapDelete(map, key) ELSE map

\* loadLiveStreams up to its await
LoadLiveStreams(m, channelId, auto) ==
    LET l == NewLoad(m, "live", channelId, 0, 0, auto)
        g == GetLiveStreams(BeginLoad(m, l), <<channelId>>, l.id)
    IN  Suspend(g.m, l, g.fetch)

\* loadLiveStreams after its await, and the finally of the auto-refresh tick
LiveContinue(m, l, streams) ==
    LET m1 == [m EXCEPT !.isAutoRefreshInFlight = IF l.auto THEN FALSE ELSE @]
    IN  IF ~SerialIsCurrent(m1, l)
        THEN m1
        ELSE Show(m1, l, IF streams = <<>> THEN "empty" ELSE "items", streams)

RECURSIVE DeliverLive(_, _, _)
DeliverLive(m, loads, streams) ==
    IF loads = <<>> THEN m
    ELSE DeliverLive(LiveContinue(m, Head(loads), streams), Tail(loads), streams)

(***************************************************************************)
(* The archive stream.                                                     *)
(***************************************************************************)
\* Array.prototype.join(','): the elements with a comma between neighbours
RECURSIVE Join(_)
Join(seq) ==
    IF Len(seq) <= 1 THEN seq ELSE <<Head(seq), ",">> \o Join(Tail(seq))

\* searchLocalDb, had it sent video_type whatever the type
SearchParamsAlwaysVideoType(query, channelId, offset, collab, collabMode, hideUnarchived, filterDates, filterYears, filterMonths, videoType) ==
    LET names ==
            {"q", "channel_id", "offset", "limit"}
            \cup (IF Truthy(collab) /\ collab.v # <<>> THEN {"collab", "collab_mode"} ELSE {})
            \cup (IF hideUnarchived THEN {"hide_unarchived"} ELSE {})
            \cup (IF Truthy(filterDates) /\ Len(filterDates.v) > 0 THEN {"filter_dates"} ELSE {})
            \cup (IF Truthy(filterYears) /\ Len(filterYears.v) > 0 THEN {"filter_years"} ELSE {})
            \cup (IF Truthy(filterMonths) /\ Len(filterMonths.v) > 0 THEN {"filter_months"} ELSE {})
            \cup {"video_type"}
    IN  [n \in names |->
            CASE n = "q" -> query
              [] n = "channel_id" -> channelId
              [] n = "offset" -> offset
              [] n = "limit" -> 32
              [] n = "collab" -> IF collab.t = "arr" THEN Join(collab.v) ELSE collab.v
              [] n = "collab_mode" -> collabMode
              [] n = "hide_unarchived" -> "true"
              [] n = "filter_dates" -> Join(filterDates.v)
              [] n = "filter_years" -> Join(filterYears.v)
              [] n = "filter_months" -> Join(filterMonths.v)
              [] n = "video_type" -> videoType]

\* the query string searchLocalDb builds: parameter name -> value
SearchParams(query, channelId, offset, collab, collabMode, hideUnarchived, filterDates, filterYears, filterMonths, videoType) ==
    LET names ==
            {"q", "channel_id", "offset", "limit"}
            \cup (IF Truthy(collab) /\ collab.v # <<>> THEN {"collab", "collab_mode"} ELSE {})
            \cup (IF hideUnarchived THEN {"hide_unarchived"} ELSE {})
            \cup (IF Truthy(filterDates) /\ Len(filterDates.v) > 0 THEN {"filter_dates"} ELSE {})
            \cup (IF Truthy(filterYears) /\ Len(filterYears.v) > 0 THEN {"filter_years"} ELSE {})
            \cup (IF Truthy(filterMonths) /\ Len(filterMonths.v) > 0 THEN {"filter_months"} ELSE {})
            \cup (IF videoType # "all" THEN {"video_type"} ELSE {})
    IN  [n \in names |->
            CASE n = "q" -> query
              [] n = "channel_id" -> channelId
              [] n = "offset" -> offset
              [] n = "limit" -> 32
              [] n = "collab" -> IF collab.t = "arr" THEN Join(collab.v) ELSE collab.v
              [] n = "collab_mode" -> collabMode
              [] n = "hide_unarchived" -> "true"
              [] n = "filter_dates" -> Join(filterDates.v)
              [] n = "filter_years" -> Join(filterYears.v)
              [] n = "filter_months" -> Join(filterMonths.v)
              [] n = "video_type" -> videoType]

\* what the /api/search request may bring: a failure, the JSON null, or a page
ArchiveTotals == {40, 70}
ArchiveResponses ==
    {[kind |-> "fail", items |-> <<>>, total |-> 0],
     [kind |-> "null", items |-> <<>>, total |-> 0]}
    \cup {[kind |-> "json", items |-> <<"a1">>, total |-> t] : t \in ArchiveTotals}

\* the value searchLocalDb returns
SearchLocalDbResult(resp) ==
    IF resp.kind = "fail" THEN [null |-> FALSE, items |-> <<>>, total |-> 0]
    ELSE [null |-> resp.kind = "null", items |-> resp.items, total |-> resp.total]

\* renderPagination: the pages its buttons offer
RenderPagination(m, type, totalItems) ==
    LET totalPages == CeilDiv(totalItems, ITEMS_PER_PAGE)
    IN  [m EXCEPT !.pagination[type] = IF totalPages <= 1 THEN 0 ELSE totalPages]

\* loadArchives with the request shared among identical pending queries
LoadArchivesCoalescing(m, channelId, page, root) ==
    LET l == NewLoad(m, "archive", channelId, page, root, FALSE)
        m1 == BeginLoad(m, l)
        state == m1.appState
        offset == (page - 1) * ITEMS_PER_PAGE
        params == SearchParams(state.currentSearchQuery, channelId, offset,
                               state.collabFilter,
                               IF state.collabMode = "undefined" THEN "or"
                                                                 ELSE state.collabMode,
                               state.hideUnarchived, state.filterDates,
                               state.filterYears, state.filterMonths, state.videoType)
        Same(f) == f.stream = "archive" /\ f.key = params
        shared == SelectSeq(m1.fetches, Same)
    IN  IF shared # <<>>
        THEN Suspend(m1, l, shared[1].id)
        ELSE Suspend([m1 EXCEPT !.fetches = Append(@, [id |-> l.id, stream |-> "archive",
                                                       key |-> params]),
                                !.netCalls["archive"] = @ + 1],
                     l, l.id)

\* loadArchives up to its await
LoadArchives(m, channelId, page, root) ==
    LET l == NewLoad(m, "archive", channelId, page, root, FALSE)
        m1 == BeginLoad(m, l)
        state == m1.appState
        offset == (page - 1) * ITEMS_PER_PAGE
        params == SearchParams(state.currentSearchQuery, channelId, offset,
                               state.collabFilter,
                               IF state.collabMode = "undefined" THEN "or"
                                                                 ELSE state.collabMode,
                               state.hideUnarchived, state.filterDates,
                               state.filterYears, state.filterMonths, state.videoType)
    IN  Suspend([m1 EXCEPT !.fetches = Append(@, [id |-> l.id, stream |-> "archive",
                                                  key |-> params]),
                           !.netCalls["archive"] = @ + 1],
                l, l.id)

\* loadArchives after its await
\* loadArchives after its await, had the redirect asked for the same page again
ArchiveContinueReloadsSamePage(m, l, result) ==
    IF result.null
    THEN IF ~SerialIsCurrent(m, l) THEN m ELSE Show(m, l, "error", <<>>)
    ELSE LET maxPage == Max(1, CeilDiv(result.total, ITEMS_PER_PAGE))
         IN  IF l.page > maxPage /\ result.total > 0
             THEN LoadArchives(WithState(m, [archivePage |-> maxPage]), l.channelId,
                               l.page, l.root)
             ELSE IF ~SerialIsCurrent(m, l) THEN m
             ELSE IF result.items = <<>>
             THEN Show(m, l, IF l.isSyncing THEN "sync" ELSE "empty", <<>>)
             ELSE RenderPagination(Show(m, l, "items", result.items), "archive",
                                   IF result.total = 0 THEN 1000 ELSE result.total)

\* loadArchives after its await, had the throw on a null result left the function
ArchiveContinueRejectsOnNull(m, l, result) ==
    IF result.null
    THEN m
    ELSE LET maxPage == Max(1, CeilDiv(result.total, ITEMS_PER_PAGE))
         IN  IF l.page > maxPage /\ result.total > 0
             THEN LoadArchives(WithState(m, [archivePage |-> maxPage]), l.channelId,
                               maxPage, l.root)
             ELSE IF ~SerialIsCurrent(m, l) THEN m
             ELSE IF result.items = <<>>
             THEN Show(m, l, IF l.isSyncing THEN "sync" ELSE "empty", <<>>)
             ELSE RenderPagination(Show(m, l, "items", result.items), "archive",
                                   IF result.total = 0 THEN 1000 ELSE result.total)

ArchiveContinue(m, l, result) ==
    IF result.null
    THEN \* throw, caught below
         IF ~SerialIsCurrent(m, l) THEN m ELSE Show(m, l, "error", <<>>)
    ELSE LET maxPage == Max(1, CeilDiv(result.total, ITEMS_PER_PAGE))
         IN  IF l.page > maxPage /\ result.total > 0
             THEN LoadArchives(WithState(m, [archivePage |-> maxPage]), l.channelId,
                               maxPage, l.root)
             ELSE IF ~SerialIsCurrent(m, l) THEN m
             ELSE IF result.items = <<>>
             THEN Show(m, l, IF l.isSyncing THEN "sync" ELSE "empty", <<>>)
             ELSE RenderPagination(Show(m, l, "items", result.items), "archive",
                                   IF result.total = 0 THEN 1000 ELSE result.total)

(***************************************************************************)
(* The clip cache.                                                         *)
(***************************************************************************)
\* String(n), as the sequence of its digits
RECURSIVE Digits(_)
Digits(n) ==
    LET d == <<"0", "1", "2", "3", "4", "5", "6", "7", "8", "9">>[(n % 10) + 1]
    IN  IF n < 10 THEN <<d>> ELSE Append(Digits(n \div 10), d)

\* the four values getClipCacheKey joins, after its || and trim()
ClipKeyArgs(channelId, offset, searchQuery, lang) ==
    <<IF channelId = "null" THEN "" ELSE channelId, offset, Trim(searchQuery), lang>>

\* getClipCacheKey leaving out the language
GetClipCacheKeyNoLang(channelId, offset, searchQuery, lang) ==
    LET a == ClipKeyArgs(channelId, offset, searchQuery, lang)
    IN  (IF a[1] = "" THEN <<>> ELSE <<a[1]>>) \o <<":">> \o Digits(a[2]) \o <<":">>
        \o a[3]

\* the template literal: the values joined by colons, as a sequence of
\* characters in which a channel id and a language code count as one each
GetClipCacheKey(channelId, offset, searchQuery, lang) ==
    LET a == ClipKeyArgs(channelId, offset, searchQuery, lang)
    IN  (IF a[1] = "" THEN <<>> ELSE <<a[1]>>) \o <<":">> \o Digits(a[2]) \o <<":">>
        \o a[3] \o <<":">> \o <<a[4]>>

CacheIndex(cache, key) ==
    IF \E i \in DOMAIN cache : cache[i].key = key
    THEN CHOOSE i \in DOMAIN cache : cache[i].key = key
    ELSE 0

CacheKeys(cache) == [i \in DOMAIN cache |-> cache[i].key]

RemoveAt(seq, i) == SubSeq(seq, 1, i - 1) \o SubSeq(seq, i + 1, Len(seq))

LookupExpiredLate(t, expiry) == t > expiry + 1

\* the TTL test of getFromClipCache: Date.now() > cached.expiry
LookupExpired(t, expiry) == t > expiry

\* getFromClipCache leaving the entry it returns where it is
GetFromClipCacheInPlace(cache, key, t) ==
    LET i == CacheIndex(cache, key)
    IN  IF i = 0 THEN [cache |-> cache, hit |-> FALSE, data |-> [items |-> <<>>, total |-> 0]]
        ELSE IF LookupExpired(t, cache[i].expiry)
        THEN [cache |-> RemoveAt(cache, i), hit |-> FALSE,
              data |-> [items |-> <<>>, total |-> 0]]
        ELSE [cache |-> cache, hit |-> TRUE, data |-> cache[i].data]

\* getFromClipCache: the cache afterwards, and the value returned (hit: not null)
GetFromClipCache(cache, key, t) ==
    LET i == CacheIndex(cache, key)
    IN  IF i = 0 THEN [cache |-> cache, hit |-> FALSE, data |-> [items |-> <<>>, total |-> 0]]
        ELSE IF LookupExpired(t, cache[i].expiry)
        THEN [cache |-> RemoveAt(cache, i), hit |-> FALSE,
              data |-> [items |-> <<>>, total |-> 0]]
        ELSE [cache |-> Append(RemoveAt(cache, i), cache[i]), hit |-> TRUE,
              data |-> cache[i].data]

\* pruneClipCache dropping the newest entries
PruneClipCacheNewest(cache, t) ==
    IF Len(cache) <= CLIP_CACHE_MAX_ENTRIES THEN cache
    ELSE LET kept == SelectSeq(cache, LAMBDA e : ~(e.expiry <= t))
         IN  IF Len(kept) > CLIP_CACHE_MAX_ENTRIES
             THEN SubSeq(kept, 1, CLIP_CACHE_MAX_ENTRIES)
             ELSE kept

\* pruneClipCache without its early return
PruneClipCacheAlways(cache, t) ==
    LET kept == SelectSeq(cache, LAMBDA e : ~(e.expiry <= t))
    IN  IF Len(kept) > CLIP_CACHE_MAX_ENTRIES
        THEN SubSeq(kept, Len(kept) - CLIP_CACHE_MAX_ENTRIES + 1, Len(kept))
        ELSE kept

\* pruneClipCache
PruneClipCache(cache, t) ==
    IF Len(cache) <= CLIP_CACHE_MAX_ENTRIES THEN cache
    ELSE LET kept == SelectSeq(cache, LAMBDA e : ~(e.expiry <= t))
         IN  IF Len(kept) > CLIP_CACHE_MAX_ENTRIES
             THEN SubSeq(kept, Len(kept) - CLIP_CACHE_MAX_ENTRIES + 1, Len(kept))
             ELSE kept

\* Map.set: an existing key keeps its place in the iteration order
MapSet(cache, key, value) ==
    LET i == CacheIndex(cache, key)
        e == [key |-> key, data |-> value.data, expiry |-> value.expiry]
    IN  IF i = 0 THEN Append(cache, e) ELSE [cache EXCEPT ![i] = e]

\* setToClipCache
SetToClipCache(cache, key, data, t) ==
    PruneClipCache(MapSet(cache, key, [data |-> data, expiry |-> t + CLIP_CACHE_TTL]), t)

Dirty == [clean |-> FALSE, keys |-> <<>>]

\* the cache operations of the machine, which record themselves
TouchOf(ts, key) == SelectSeq(ts, LAMBDA r : r.key = key)
Untouched(ts, key) == SelectSeq(ts, LAMBDA r : r.key # key)

CacheGet(m, key) ==
    LET g == GetFromClipCache(m.clipCache, key, m.now)
        i == CacheIndex(m.clipCache, key)
    IN  [m |-> [m EXCEPT !.clipCache = g.cache,
                         !.putLog = IF i # 0 THEN Dirty ELSE @,
                         !.touches = IF g.hit
                                     THEN Append(Untouched(@, key),
                                                 [TouchOf(@, key)[1] EXCEPT !.by = "hit"])
                                     ELSE Untouched(@, key),
                         !.cacheOp = [op |-> "get", key |-> key, found |-> i # 0,
                                      expiry |-> IF i # 0 THEN m.clipCache[i].expiry ELSE 0,
                                      hit |-> g.hit,
                                      data |-> IF g.hit THEN g.data.items ELSE <<>>,
                                      dropped |-> Len(m.clipCache) - Len(g.cache),
                                      args |-> <<>>]],
         hit |-> g.hit, data |-> g.data]

CachePut(m, key, data) ==
    LET c == SetToClipCache(m.clipCache, key, data, m.now)
        i == CacheIndex(m.clipCache, key)
        fresh == i = 0 /\ \A j \in DOMAIN m.clipCache : m.clipCache[j].expiry > m.now
    IN  [m EXCEPT !.clipCache = c,
                  !.touches = SelectSeq(Append(Untouched(@, key),
                                               [key |-> key, by |-> "put",
                                                items |-> data.items, args |-> <<>>]),
                                        LAMBDA r : CacheIndex(c, r.key) # 0),
                  !.putLog = IF @.clean /\ fresh
                             THEN [clean |-> TRUE, keys |-> Append(@.keys, key)]
                             ELSE Dirty,
                  !.cacheOp = [op |-> "put", key |-> key, found |-> i # 0,
                               expiry |-> m.now + CLIP_CACHE_TTL, hit |-> FALSE,
                               data |-> data.items,
                               dropped |-> Len(m.clipCache) + (IF i = 0 THEN 1 ELSE 0)
                                           - Len(c),
                               args |-> <<>>]]

(***************************************************************************)
(* The clips stream.                                                       *)
(***************************************************************************)
\* what the clip request may bring: null on any failure, else a page
ClipResponses ==
    {[ok |-> FALSE, items |-> <<>>, total |-> 0],
     [ok |-> TRUE, items |-> <<"c1">>, total |-> 40],
     [ok |-> TRUE, items |-> <<"c2">>, total |-> 40]}

\* loadClips after its await
ClipsContinue(m, l, result) ==
    IF ~SerialIsCurrent(m, l) THEN m
    ELSE IF result.items = <<>> THEN Show(m, l, "empty", <<>>)
    ELSE RenderPagination(Show(m, l, "items", result.items), "clips",
                          IF result.total = 0 THEN 500 ELSE result.total)

\* loadClips up to its await, and beyond it when getClips answers from the cache
LoadClips(m, channelId, page, root) ==
    LET l == NewLoad(m, "clips", channelId, page, root, FALSE)
        m1 == BeginLoad(m, l)
        state == m1.appState
        offset == (page - 1) * ITEMS_PER_PAGE
        cacheKey == GetClipCacheKey(channelId, offset, state.currentSearchQuery,
                                    state.clipLang)
        args == ClipKeyArgs(channelId, offset, state.currentSearchQuery, state.clipLang)
        g0 == CacheGet(m1, cacheKey)
        g == [g0 EXCEPT !.m.cacheOp.args = args]
    IN  IF g.hit
        THEN ClipsContinue(g.m, l, g.data)
        ELSE Suspend([g.m EXCEPT !.fetches = Append(@, [id |-> l.id, stream |-> "clips",
                                                        key |-> cacheKey, args |-> args]),
                                 !.netCalls["clips"] = @ + 1],
                     l, l.id)

\* getClips after its await
GetClipsSettled(m, f, resp) ==
    IF ~resp.ok
    THEN [m |-> m, result |-> [items |-> <<>>, total |-> 0]]
    ELSE LET result == [items |-> resp.items, total |-> resp.total]
             put == CachePut(m, f.key, result)
         IN  [m |-> [put EXCEPT !.cacheOp.args = f.args,
                                !.touches[Len(put.touches)].args = f.args],
              result |-> result]

(***************************************************************************)
(* The handlers.                                                           *)
(***************************************************************************)
\* the handler's loads fit the bound of the model
WithinBound(m) == m.nextId <= loadLimit + 1

LoadViewData(m, view) ==
    LET state == m.appState
    IN  IF state.currentChannelId = "null" THEN m
        ELSE CASE view = "live" -> LoadLiveStreams(m, state.currentChannelId, FALSE)
               [] view = "archive" ->
                      LoadArchives(m, state.currentChannelId, state.archivePage, 0)
               [] view = "clips" -> LoadClips(m, state.currentChannelId, state.clipsPage, 0)
               [] OTHER -> m

ResetAllFilters(m) ==
    WithState(m, [currentSearchQuery |-> NoQuery,
                  collabFilter |-> JsStr(<<>>),
                  collabMode |-> "or",
                  hideUnarchived |-> FALSE,
                  filterDates |-> JsArr(<<>>),
                  filterYears |-> JsArr(<<>>),
                  filterMonths |-> JsArr(<<>>),
                  videoType |-> "all"])

SwitchViewCall(m, viewName) ==
    LET m1 == WithState(m, [currentView |-> viewName])
        m2 == IF viewName = "archive" THEN m1 ELSE ResetAllFilters(m1)
    IN  LoadViewData(m2, viewName)

ApplyCollabFilter(m, selectedMembers, mode, skipReload) ==
    LET m1 == WithState(m, IF skipReload
                           THEN [collabFilter |-> selectedMembers, collabMode |-> mode]
                           ELSE [collabFilter |-> selectedMembers, collabMode |-> mode,
                                 archivePage |-> 1])
        state == m1.appState
    IN  IF ~skipReload /\ state.currentView \in {"archive", "home"}
        THEN LoadArchives(m1, state.currentChannelId, 1, 0)
        ELSE m1

\* clearQuickDateSelection
ClearQuickDateSelection(m) ==
    [m EXCEPT !.selectedQuickYears = <<>>, !.selectedQuickMonths = <<>>]

\* loadChannelInfo up to its await: the cached info, or else the local profile
\* and a request for the info
LoadChannelInfo(m, channelId) ==
    IF channelId \in m.profile.cached
    THEN [m EXCEPT !.profile.shown = [channel |-> channelId, source |-> "info"]]
    ELSE [m EXCEPT !.profile.shown = [channel |-> channelId, source |-> "local"],
                   !.profile.requests[channelId] = @ + 1]

\* loadChannelInfo after its await; ok: the request brought the info
ChannelInfoContinue(m, channelId, ok) ==
    IF ~ok THEN m
    ELSE [m EXCEPT !.profile.cached = @ \cup {channelId},
                   !.profile.shown = [channel |-> channelId, source |-> "info"]]

SelectChannelCall(m, channelId, preservePage) ==
    LET m1 == WithState(m, IF preservePage
                           THEN [currentChannelId |-> channelId,
                                 currentSearchQuery |-> NoQuery]
                           ELSE [currentChannelId |-> channelId,
                                 currentSearchQuery |-> NoQuery,
                                 archivePage |-> 1, clipsPage |-> 1])
        m2 == ApplyCollabFilter(m1, JsArr(<<>>), "or", preservePage)
        m3 == WithState(m2, [hideUnarchived |-> FALSE])
        m4 == [ClearQuickDateSelection(m3) EXCEPT !.selectedDates = <<>>]
        m5 == WithState(m4, [filterDates |-> JsArr(<<>>), filterYears |-> JsNull,
                             filterMonths |-> JsNull])
        m6 == LoadChannelInfo(m5, channelId)
    IN  LoadViewData(m6, m6.appState.currentView)

\* performSearch, had it left the view alone when the update changes no field
PerformSearchCallSkipsNoOp(m, query) ==
    LET m1 == WithState(m, [currentSearchQuery |-> query, archivePage |-> 1,
                            clipsPage |-> 1])
    IN  IF m1.appState = m.appState THEN m1
        ELSE LoadViewData(m1, m1.appState.currentView)

PerformSearchCall(m, query) ==
    LET m1 == WithState(m, [currentSearchQuery |-> query, archivePage |-> 1,
                            clipsPage |-> 1])
    IN  LoadViewData(m1, m1.appState.currentView)

HandlePageChangeCall(m, page, type) ==
    LET state == m.appState
    IN  IF type = "archive"
        THEN LoadArchives(WithState(m, [archivePage |-> page]), state.currentChannelId,
                          page, 0)
        ELSE LoadClips(WithState(m, [clipsPage |-> page]), state.currentChannelId, page, 0)

(***************************************************************************)
(* The filter panel of the archive view.                                   *)
(***************************************************************************)
\* the year and month buttons of the date tab, and the collaborators offered
YearButtons == {2025, 2026}
MonthButtons == {1}
CollabMembers == {<<>>, <<"mA">>}
CollabModes == {"or", "and"}

\* the months a year without selected months stands for (all twelve in the source)
AllMonths == <<1, 2>>

\* the days of a month, of which the model keeps the first
LastDay(year, month) == 1

\* dates as formatDate writes them: year, month, day
DatesOfMonth(year, month) == [day \in 1..LastDay(year, month) |-> <<year, month, day>>]

RECURSIVE DatesOfMonths(_, _)
DatesOfMonths(year, months) ==
    IF months = <<>> THEN <<>>
    ELSE DatesOfMonth(year, Head(months)) \o DatesOfMonths(year, Tail(months))

RECURSIVE AllDates(_, _)
AllDates(years, months) ==
    IF years = <<>> THEN <<>>
    ELSE DatesOfMonths(Head(years), months) \o AllDates(Tail(years), months)

Includes(seq, x) == \E i \in DOMAIN seq : seq[i] = x
Without(seq, x) == SelectSeq(seq, LAMBDA y : y # x)

\* the order of the strings formatDate writes
DateBefore(a, b) ==
    \/ a[1] < b[1]
    \/ a[1] = b[1] /\ a[2] < b[2]
    \/ a[1] = b[1] /\ a[2] = b[2] /\ a[3] < b[3]

RECURSIVE InsertDate(_, _)
InsertDate(sorted, x) ==
    IF sorted = <<>> THEN <<x>>
    ELSE IF DateBefore(x, Head(sorted)) THEN <<x>> \o sorted
    ELSE <<Head(sorted)>> \o InsertDate(Tail(sorted), x)

RECURSIVE SortDates(_)
SortDates(s) ==
    IF s = <<>> THEN <<>> ELSE InsertDate(SortDates(SubSeq(s, 1, Len(s) - 1)), s[Len(s)])

\* updateSelectedDatesDisplay: it sorts selectedDates in place for its tags
UpdateSelectedDatesDisplay(m) == [m EXCEPT !.selectedDates = SortDates(@)]

\* syncCalendarWithQuickSelect, with the calendar in place
SyncCalendarWithQuickSelect(m) ==
    IF Len(m.selectedQuickYears) = 0
    THEN UpdateSelectedDatesDisplay([m EXCEPT !.selectedDates = <<>>])
    ELSE LET months == IF Len(m.selectedQuickMonths) > 0 THEN m.selectedQuickMonths
                                                        ELSE AllMonths
         IN  UpdateSelectedDatesDisplay(
                 [m EXCEPT !.selectedDates = AllDates(m.selectedQuickYears, months)])

\* the click listener setupYearButtons registers: it leaves the months alone
YearButtonListenerKeepsMonths(m, clickedYear) ==
    IF Includes(m.selectedQuickYears, clickedYear)
    THEN [m EXCEPT !.selectedQuickYears = Without(@, clickedYear)]
    ELSE [m EXCEPT !.selectedQuickYears = Append(@, clickedYear)]

\* the click listener renderYearButtons registers on a year button
YearButtonListener(m, clickedYear) ==
    LET m1 == IF Includes(m.selectedQuickYears, clickedYear)
              THEN LET years == Without(m.selectedQuickYears, clickedYear)
                   IN  [m EXCEPT !.selectedQuickYears = years,
                                 !.selectedQuickMonths = IF Len(years) = 0 THEN <<>> ELSE @]
              ELSE [m EXCEPT !.selectedQuickYears = Append(@, clickedYear)]
    IN  SyncCalendarWithQuickSelect(m1)

\* one click listener setupMonthButtons registers on a month button
MonthButtonListener(m, month) ==
    IF Len(m.selectedQuickYears) = 0 THEN m
    ELSE SyncCalendarWithQuickSelect(
             IF Includes(m.selectedQuickMonths, month)
             THEN [m EXCEPT !.selectedQuickMonths = Without(@, month)]
             ELSE [m EXCEPT !.selectedQuickMonths = Append(@, month)])

\* a click on a month button runs every listener registered on it
RECURSIVE MonthButtonListeners(_, _, _)
MonthButtonListeners(m, month, n) ==
    IF n = 0 THEN m ELSE MonthButtonListeners(MonthButtonListener(m, month), month, n - 1)

\* one click listener setupYearNavigation registers on the previous year
\* button (delta -1) or on the next year button (delta 1); renderYearButtons
\* then shows the buttons of the new base year
YearNavListener(m, delta) ==
    [m EXCEPT !.quickSelectBaseYear = @ + delta]

\* a click on a navigation button runs every listener registered on it
RECURSIVE YearNavListeners(_, _, _)
YearNavListeners(m, delta, n) ==
    IF n = 0 THEN m ELSE YearNavListeners(YearNavListener(m, delta), delta, n - 1)

\* the years of the three buttons renderYearButtons puts on display
DisplayedYears(base) == base .. base + 2

\* the onChange callback, had it left the quick selection alone
CalendarOnChangeKeepsQuick(m, dates) ==
    UpdateSelectedDatesDisplay([m EXCEPT !.selectedDates = dates])

\* the onChange callback of the calendar after a click of the user on a day
CalendarOnChange(m, dates) ==
    ClearQuickDateSelection(UpdateSelectedDatesDisplay([m EXCEPT !.selectedDates = dates]))

\* the click listener of the remove mark of a date tag
RemoveDateTagListener(m, dateToRemove) ==
    UpdateSelectedDatesDisplay([m EXCEPT !.selectedDates = Without(@, dateToRemove)])

ReloadsArchive(view) == view \in {"archive", "home"}

\* applyQuickDateFilter, had it written only the selections that are not empty
ApplyQuickDateFilterKeepsApplied(m) ==
    LET m1 == WithState(m, [filterYears |-> IF Len(m.selectedQuickYears) > 0
                                            THEN JsArr(m.selectedQuickYears)
                                            ELSE m.appState.filterYears,
                            filterMonths |-> IF Len(m.selectedQuickMonths) > 0
                                             THEN JsArr(m.selectedQuickMonths)
                                             ELSE m.appState.filterMonths])
        state == m1.appState
    IN  IF ReloadsArchive(state.currentView)
        THEN LoadArchives(m1, state.currentChannelId, 1, 0)
        ELSE m1

ApplyQuickDateFilter(m) ==
    LET m1 == WithState(m, [filterYears |-> IF Len(m.selectedQuickYears) > 0
                                            THEN JsArr(m.selectedQuickYears) ELSE JsNull,
                            filterMonths |-> IF Len(m.selectedQuickMonths) > 0
                                             THEN JsArr(m.selectedQuickMonths) ELSE JsNull])
        state == m1.appState
    IN  IF ReloadsArchive(state.currentView)
        THEN LoadArchives(m1, state.currentChannelId, 1, 0)
        ELSE m1

ApplyDateFilter(m, dates) ==
    LET m1 == WithState(m, [filterDates |-> JsArr(dates), archivePage |-> 1])
        state == m1.appState
    IN  IF ReloadsArchive(state.currentView)
        THEN LoadArchives(m1, state.currentChannelId, 1, 0)
        ELSE m1

\* the click listener of the apply button of the date tab
ApplyDateClickCall(m) == ApplyDateFilter(ApplyQuickDateFilter(m), m.selectedDates)

\* the click listener of the clear button of the date tab
ClearDateClickCall(m) ==
    LET m1 == ClearQuickDateSelection([m EXCEPT !.selectedDates = <<>>])
        m2 == WithState(m1, [filterYears |-> JsNull, filterMonths |-> JsNull])
    IN  ApplyDateFilter(m2, <<>>)

\* the change listener of the hide-unarchived checkbox
HideUnarchivedChangeCall(m, newValue) ==
    LET m1 == WithState(m, [hideUnarchived |-> newValue, archivePage |-> 1])
        currentState == m1.appState
    IN  IF ReloadsArchive(currentState.currentView)
        THEN LoadArchives(m1, currentState.currentChannelId, 1, 0)
        ELSE m1

(***************************************************************************)
(* Initial state: the module-level initialisers, then init() with an empty *)
(* URL hash, which selects the default channel and loads nothing in the    *)
(* home view.                                                              *)
(***************************************************************************)
Constructed ==
    [ appState |-> INITIAL_STATE,
      requestSerials |-> [s \in Streams |-> 0],
      container |-> [s \in Streams |-> EmptyContainer],
      pagination |-> [s \in {"archive", "clips"} |-> 0],
      inFlightLiveRequests |-> <<>>,
      clipCache |-> <<>>,
      isAutoRefreshInFlight |-> FALSE,
      pendingLoads |-> <<>>,
      fetches |-> <<>>,
      nextId |-> 1,
      dispatched |-> [s \in Streams |-> 0],
      netCalls |-> [s \in Streams |-> 0],
      lastUser |-> [s \in Streams |-> 0],
      now |-> 0,
      putLog |-> [clean |-> TRUE, keys |-> <<>>],
      touches |-> <<>>,
      selectedQuickYears |-> <<>>,
      selectedQuickMonths |-> <<>>,
      selectedDates |-> <<>>,
      monthClickListeners |-> 0,
      quickSelectBaseYear |-> CurrentYear - 1,
      profile |-> [shown |-> [channel |-> "null", source |-> "none"],
                   cached |-> {},
                   requests |-> [c \in Channels |-> 0],
                   prefetch |-> TRUE],
      cacheOp |-> NoCacheOp ]

\* cached: the channel infos localStorage holds from earlier visits
AfterInitWith(cached) ==
    SelectChannelCall([Constructed EXCEPT !.profile.cached = cached], DefaultChannelId, TRUE)

AfterInit == AfterInitWith({})

\* the intervals: setInterval hands out a new handle and runs the callback `fn`
\* from then on, clearInterval takes the interval of a handle away
SetInterval(t, fn) ==
    [next |-> t.next + 1, active |-> t.active \cup {[id |-> t.next, fn |-> fn]}]
ClearInterval(t, handle) == [t EXCEPT !.active = {x \in @ : x.id # handle}]

NoTimers ==
    [refreshInterval |-> 0, pollingInterval |-> 0, timers |-> [next |-> 1, active |-> {}]]

\* startAutoRefresh, had it started its interval next to the one running
StartAutoRefreshKeepsOld(T) ==
    [T EXCEPT !.refreshInterval = T.timers.next, !.timers = SetInterval(T.timers, "refresh")]

\* startAutoRefresh, without the interval's callback (AutoRefreshTick)
StartAutoRefresh(T) ==
    LET t == IF T.refreshInterval # 0 THEN ClearInterval(T.timers, T.refreshInterval)
                                      ELSE T.timers
    IN  [T EXCEPT !.refreshInterval = t.next, !.timers = SetInterval(t, "refresh")]

\* startLivePolling, without the interval's callback (LivePollingTick)
StartLivePolling(T) ==
    LET t == IF T.pollingInterval # 0 THEN ClearInterval(T.timers, T.pollingInterval)
                                      ELSE T.timers
    IN  [T EXCEPT !.pollingInterval = t.next, !.timers = SetInterval(t, "polling")]

\* the visibilitychange listener of setupVisibilityHandler
VisibilityHandler(T, hidden) ==
    IF hidden
    THEN LET t1 == IF T.refreshInterval # 0
                   THEN ClearInterval(T.timers, T.refreshInterval) ELSE T.timers
             t2 == IF T.pollingInterval # 0
                   THEN ClearInterval(t1, T.pollingInterval) ELSE t1
         IN  [refreshInterval |-> 0, pollingInterval |-> 0, timers |-> t2]
    ELSE StartLivePolling(StartAutoRefresh(T))

\* init(): startAutoRefresh(), startLivePolling()
TimersAfterInit == StartLivePolling(StartAutoRefresh(NoTimers))

\* init(): checkApiKey() with an API key stored asks for the sync status
SyncAfterInit ==
    [interval |-> FALSE, requests |-> <<"check">>, timeouts |-> 0, issued |-> 1,
     reloads |-> 0, searchDisabled |-> FALSE]

Loaded ==
    /\ appState = AfterInit.appState
    /\ requestSerials = AfterInit.requestSerials
    /\ container = AfterInit.container
    /\ pagination = AfterInit.pagination
    /\ inFlightLiveRequests = AfterInit.inFlightLiveRequests
    /\ clipCache = AfterInit.clipCache
    /\ isAutoRefreshInFlight = FALSE
    /\ isLivePollingInFlight = FALSE
    /\ knownStreamIds = {}
    /\ pendingLoads = AfterInit.pendingLoads
    /\ pollWait = 0
    /\ fetches = AfterInit.fetches
    /\ now = 0
    /\ nextId = AfterInit.nextId
    /\ dispatched = AfterInit.dispatched
    /\ netCalls = AfterInit.netCalls
    /\ lastUser = AfterInit.lastUser
    /\ putLog = AfterInit.putLog
    /\ touches = AfterInit.touches
    /\ ev = NoCacheOp
    /\ store = StoreConstructed
    /\ selectedQuickYears = AfterInit.selectedQuickYears
    /\ selectedQuickMonths = AfterInit.selectedQuickMonths
    /\ selectedDates = AfterInit.selectedDates
    /\ monthClickListeners = AfterInit.monthClickListeners
    /\ quickSelectBaseYear = AfterInit.quickSelectBaseYear
    /\ profile = AfterInit.profile
    /\ call = NoCall
    /\ refreshInterval = TimersAfterInit.refreshInterval
    /\ pollingInterval = TimersAfterInit.pollingInterval
    /\ timers = TimersAfterInit.timers
    /\ sync = SyncAfterInit

\* the page was loaded in a tab on screen
Started == Loaded /\ documentHidden = FALSE

Init == Started /\ loadLimit = MaxLoads

(***************************************************************************)
(* Actions.                                                                *)
(***************************************************************************)
pollVars == <<isLivePollingInFlight, knownStreamIds, pollWait>>

\* a handler that neither polls nor moves the clock
Handler(m) ==
    /\ WithinBound(m)
    /\ Commit(m)
    /\ UNCHANGED <<pollVars, now, loadLimit>>

\* click on a navigation link
SwitchTo(v) == Handler(SwitchViewCall(Cur, v))

SwitchView == \E v \in Views : SwitchTo(v)

\* click on a channel of the side bar
SelectChannel == \E c \in Channels : Handler(SelectChannelCall(Cur, c, FALSE))

\* search button, or Enter in the search box
PerformSearch == \E q \in Queries : Handler(PerformSearchCall(Cur, q))

\* click on a button of a pagination element that is on screen
HandlePageChange ==
    \E type \in {"archive", "clips"} :
        /\ appState.currentView = type
        /\ \E page \in 1..pagination[type] :
              Handler(HandlePageChangeCall(Cur, page, type))

\* change of the clip language select
LangChange ==
    \E newLang \in Langs :
        /\ appState.currentView = "clips"
        /\ newLang # appState.clipLang
        /\ LET m1 == WithState(Cur, [clipLang |-> newLang, clipsPage |-> 1])
           IN  Handler(LoadClips(m1, m1.appState.currentChannelId, 1, 0))

\* click on a tab of the archive view
ArchiveTabClick ==
    \E type \in VideoTypes :
        /\ appState.currentView = "archive"
        /\ appState.videoType # type
        /\ LET m1 == WithState(Cur, [videoType |-> type, archivePage |-> 1])
           IN  Handler(LoadArchives(m1, appState.currentChannelId, 1, 0))

\* a tick of the auto-refresh interval that starts work
\* the auto-refresh tick, had it not looked at its own in-flight flag
AutoRefreshTickUnguarded ==
    /\ \E x \in timers.active : x.fn = "refresh"
    /\ ~documentHidden
    /\ ~isLivePollingInFlight
    /\ appState.currentView = "live"
    /\ Handler(LoadLiveStreams([Cur EXCEPT !.isAutoRefreshInFlight = TRUE],
                               appState.currentChannelId, TRUE))

AutoRefreshTick ==
    /\ \E x \in timers.active : x.fn = "refresh"
    /\ ~documentHidden
    /\ ~isAutoRefreshInFlight
    /\ ~isLivePollingInFlight
    /\ appState.currentView = "live"
    /\ Handler(LoadLiveStreams([Cur EXCEPT !.isAutoRefreshInFlight = TRUE],
                               appState.currentChannelId, TRUE))

\* a tick of the live polling interval that starts work
LivePollingTick ==
    /\ \E x \in timers.active : x.fn = "polling"
    /\ ~documentHidden
    /\ ~isLivePollingInFlight
    /\ LET g == GetLiveStreams([Cur EXCEPT !.nextId = @ + 1], CHANNELS, nextId)
       IN  /\ WithinBound(g.m)
           /\ Commit(g.m)
           /\ pollWait' = g.fetch
    /\ isLivePollingInFlight' = TRUE
    /\ UNCHANGED <<knownStreamIds, now, loadLimit>>

IsLiveNow(v) == v.status = "live"

\* the answer to a /live request arrives
LiveSettleWith(resp) ==
    \E i \in DOMAIN fetches :
        /\ fetches[i].stream = "live"
        /\ LET f == fetches[i]
               streams == LiveValue(resp)
               Awaits(l) == l.fetch = f.id
               m1 == [Cur EXCEPT !.fetches = RemoveAt(@, i),
                                 !.inFlightLiveRequests = LiveRequestSettled(@, f.key, f.id),
                                 !.pendingLoads = SelectSeq(@, LAMBDA l : ~Awaits(l))]
           IN  /\ Commit(DeliverLive(m1, SelectSeq(pendingLoads, Awaits), streams))
               /\ IF pollWait = f.id
                  THEN /\ knownStreamIds' = knownStreamIds \cup
                              {streams[j].id : j \in {n \in DOMAIN streams : IsLiveNow(streams[n])}}
                       /\ isLivePollingInFlight' = FALSE
                       /\ pollWait' = 0
                  ELSE UNCHANGED pollVars
        /\ UNCHANGED <<now, loadLimit>>

LiveSettle == \E resp \in LiveResponses : LiveSettleWith(resp)

\* the answer to an /api/search request arrives
ArchiveSettleWith(resp) ==
    \E i \in DOMAIN fetches :
        /\ fetches[i].stream = "archive"
        /\ LET f == fetches[i]
               Awaits(l) == l.fetch = f.id
               l == SelectSeq(pendingLoads, Awaits)[1]
               m1 == [Cur EXCEPT !.fetches = RemoveAt(@, i),
                                 !.pendingLoads = SelectSeq(@, LAMBDA x : ~Awaits(x))]
           IN  Commit(ArchiveContinue(m1, l, SearchLocalDbResult(resp)))
        /\ UNCHANGED <<pollVars, now, loadLimit>>

ArchiveSettle == \E resp \in ArchiveResponses : ArchiveSettleWith(resp)

\* the answer to a clip request arrives
ClipsSettleWith(resp) ==
    \E i \in DOMAIN fetches :
        /\ fetches[i].stream = "clips"
        /\ LET f == fetches[i]
               Awaits(l) == l.fetch = f.id
               l == SelectSeq(pendingLoads, Awaits)[1]
               m1 == [Cur EXCEPT !.fetches = RemoveAt(@, i),
                                 !.pendingLoads = SelectSeq(@, LAMBDA x : ~Awaits(x))]
               g == GetClipsSettled(m1, f, resp)
           IN  Commit(ClipsContinue(g.m, l, g.result))
        /\ UNCHANGED <<pollVars, now, loadLimit>>

ClipsSettle == \E resp \in ClipResponses : ClipsSettleWith(resp)

\* time passes
Tick ==
    /\ now < MaxTime
    /\ now' = now + 1
    /\ ev' = NoCacheOp
    /\ UNCHANGED <<appState, requestSerials, container, pagination, inFlightLiveRequests,
                   clipCache, isAutoRefreshInFlight, pollVars, pendingLoads, fetches,
                   nextId, dispatched, netCalls, lastUser, loadLimit, putLog, touches,
                   store, selectedQuickYears, selectedQuickMonths, selectedDates,
                   monthClickListeners, quickSelectBaseYear, call, timerVars, sync, profile>>

Next ==
    \/ SwitchView
    \/ SelectChannel
    \/ PerformSearch
    \/ HandlePageChange
    \/ LangChange
    \/ ArchiveTabClick
    \/ AutoRefreshTick
    \/ LivePollingTick
    \/ LiveSettle
    \/ ArchiveSettle
    \/ ClipsSettle

Spec == Init /\ [][Next]_vars

\* the same program, followed through one more load
InitDeep == Started /\ loadLimit = MaxDeepLoads

SpecDeep == InitDeep /\ [][Next]_vars

\* the clips view with the clock running
SwitchToClips == SwitchTo("clips")

InitCache == Started /\ loadLimit = MaxCacheLoads

NextCache ==
    \/ SwitchToClips
    \/ HandlePageChange
    \/ LangChange
    \/ ClipsSettle
    \/ Tick

SpecCache == InitCache /\ [][NextCache]_vars

\* the clips view with the clock at rest, followed through one more load
InitLru == Started /\ loadLimit = MaxLruLoads

NextLru ==
    \/ SwitchToClips
    \/ HandlePageChange
    \/ LangChange
    \/ ClipsSettle

SpecLru == InitLru /\ [][NextLru]_vars

\* search button or Enter, with whatever the search box holds
SearchBoxSubmit == \E v \in SearchInputs : Handler(PerformSearchCall(Cur, Trim(v)))

\* the clips view with search texts, channels, languages and pages
InitKey == Started /\ loadLimit = MaxKeyLoads

NextKey ==
    \/ SwitchToClips
    \/ SearchBoxSubmit
    \/ SelectChannel
    \/ HandlePageChange
    \/ LangChange
    \/ ClipsSettle

SpecKey == InitKey /\ [][NextKey]_vars

\* everything but the state store told apart by objects
appVars ==
    <<appState, requestSerials, container, pagination, inFlightLiveRequests, clipCache,
      isAutoRefreshInFlight, isLivePollingInFlight, knownStreamIds, pendingLoads,
      pollWait, fetches, now, nextId, dispatched, netCalls, lastUser, loadLimit, putLog,
      ev, touches, selectedQuickYears, selectedQuickMonths, selectedDates,
      monthClickListeners, quickSelectBaseYear, call, timerVars, sync, profile>>

\* a caller hands an object to setState
StoreSetObject ==
    \E p \in StoreUpdates(store.snap) :
        LET e == Evaluate(store.heap, p, 1)
        IN  /\ Len(e.heap) <= MaxObjects
            /\ store' = StoreSetState([store EXCEPT !.heap = e.heap],
                                      [object |-> TRUE, p |-> e.p])
            /\ UNCHANGED appVars

\* a caller hands nothing, or a string or a number, to setState
StoreSetNonObject ==
    /\ store' = StoreSetState(store, [object |-> FALSE, p |-> <<>>])
    /\ UNCHANGED appVars

StoreGet ==
    /\ store' = StoreGetState(store)
    /\ UNCHANGED appVars

StoreReset ==
    /\ store' = StoreResetState(store)
    /\ UNCHANGED appVars

\* the caller pushes an element onto an array of the snapshot it holds
CallerPushes ==
    \E k \in ArrayFields :
        /\ IsRef(store.snap[k])
        /\ Len(store.heap[store.snap[k].v[1]]) < MaxArrayLen
        /\ store' = [store EXCEPT !.heap[store.snap[k].v[1]] = Append(@, "x"),
                                  !.op = [name |-> "push", replaced |-> FALSE,
                                          object |-> FALSE, keys |-> {k}, p |-> <<>>]]
        /\ UNCHANGED appVars

\* the caller assigns to a field of the snapshot it holds
CallerAssigns ==
    \E k \in {"archivePage", "filterYears"} :
        /\ store.snap[k] = store.state[k]
        /\ store' = [store EXCEPT !.snap[k] = IF k = "archivePage" THEN 9 ELSE JsNull,
                                  !.op = [name |-> "assign", replaced |-> FALSE,
                                          object |-> FALSE, keys |-> {k}, p |-> <<>>]]
        /\ UNCHANGED appVars

NextStore ==
    \/ StoreSetObject
    \/ StoreSetNonObject
    \/ StoreGet
    \/ StoreReset
    \/ CallerPushes
    \/ CallerAssigns

SpecStore == Init /\ [][NextStore]_vars

\* the filter button and the checkbox are on screen in the archive view only
FilterPanelShown == appState.currentView = "archive"

\* click on the date tab of the filter panel: initDatePicker, initQuickDateSelector
DateTabClick ==
    /\ FilterPanelShown
    /\ monthClickListeners < MaxDateTabClicks
    /\ Handler([Cur EXCEPT !.monthClickListeners = @ + 1])

\* click on a year button, once the date tab has rendered them
YearButtonClick ==
    \E year \in YearButtons \cap DisplayedYears(quickSelectBaseYear) :
        /\ FilterPanelShown
        /\ monthClickListeners > 0
        /\ Handler(YearButtonListener(Cur, year))


MonthButtonClickOn(month) ==
    /\ FilterPanelShown
    /\ monthClickListeners > 0
    /\ Handler(MonthButtonListeners(Cur, month, monthClickListeners))

\* click on the previous year or the next year button of the date tab; each
\* call of initQuickDateSelector has registered one more listener on it, as
\* many as on a month button
YearNavClick(delta) ==
    /\ FilterPanelShown
    /\ monthClickListeners > 0
    /\ LET m == YearNavListeners(Cur, delta, monthClickListeners)
       IN  /\ m.quickSelectBaseYear \in
                  (CurrentYear - 1 - MaxYearShift) .. (CurrentYear - 1 + MaxYearShift)
           /\ Handler(m)

PrevYearClick == YearNavClick(-1)

NextYearClick == YearNavClick(1)

MonthButtonClick == \E month \in MonthButtons : MonthButtonClickOn(month)

\* click on a day of the calendar: the day is added to the dates or taken away
CalendarClick ==
    \E year \in YearButtons, month \in MonthButtons :
        LET date == <<year, month, 1>>
        IN  /\ FilterPanelShown
            /\ monthClickListeners > 0
            /\ Handler(CalendarOnChange(Cur, IF Includes(selectedDates, date)
                                              THEN Without(selectedDates, date)
                                              ELSE Append(selectedDates, date)))

\* click on the remove mark of one of the date tags on screen
RemoveDateTagClick ==
    \E i \in DOMAIN selectedDates :
        /\ FilterPanelShown
        /\ Handler(RemoveDateTagListener(Cur, selectedDates[i]))

ApplyDateClick == FilterPanelShown /\ Handler(ApplyDateClickCall(Cur))

ClearDateClick == FilterPanelShown /\ Handler(ClearDateClickCall(Cur))

\* the checkbox holds what the state holds, and a click flips it
HideUnarchivedChange ==
    /\ FilterPanelShown
    /\ Handler(HideUnarchivedChangeCall(Cur, ~appState.hideUnarchived))

\* apply button of the collaborator tab, with the members ticked and the mode chosen
CollabApplyClick ==
    \E members \in CollabMembers, mode \in CollabModes :
        /\ FilterPanelShown
        /\ Handler(ApplyCollabFilter(Cur, JsArr(members), mode, FALSE))

SwitchToArchive == SwitchTo("archive")

SwitchToHome == SwitchTo("home")

\* the date tab of the filter panel, with the requests left unanswered
InitQuick == Started /\ loadLimit = MaxQuickLoads

NextQuick ==
    \/ SwitchToArchive
    \/ SwitchToHome
    \/ SelectChannel
    \/ DateTabClick
    \/ YearButtonClick
    \/ MonthButtonClick
    \/ CalendarClick
    \/ ApplyDateClick
    \/ ClearDateClick

SpecQuick == InitQuick /\ [][NextQuick]_vars

\* the quick buttons and the apply button, followed through two applications
InitYear == Started /\ loadLimit = MaxYearLoads

NextYear ==
    \/ SwitchToArchive
    \/ DateTabClick
    \/ YearButtonClick
    \/ MonthButtonClick
    \/ ApplyDateClick

SpecYear == InitYear /\ [][NextYear]_vars

\* the pending selection of the date tab: quick buttons, calendar and date tags
NextPick ==
    \/ SwitchToArchive
    \/ DateTabClick
    \/ YearButtonClick
    \/ MonthButtonClick
    \/ CalendarClick
    \/ RemoveDateTagClick

SpecPick == Init /\ [][NextPick]_vars

\* the date tab alone: its year and month buttons and the year navigation
DateTabMonths == {1, 2}

DateTabMonthClick == \E month \in DateTabMonths : MonthButtonClickOn(month)

InitDateTab == Started /\ loadLimit = MaxLoads

NextDateTab ==
    \/ SwitchToArchive
    \/ SwitchToHome
    \/ DateTabClick
    \/ YearButtonClick
    \/ DateTabMonthClick
    \/ PrevYearClick
    \/ NextYearClick

SpecDateTab == InitDateTab /\ [][NextDateTab]_vars

\* the archive and clips views with the search box and the apply buttons of the
\* filter panel, the requests left unanswered
InitReload == Started /\ loadLimit = MaxReloadLoads

NextReload ==
    \/ SwitchToArchive
    \/ SwitchToClips
    \/ PerformSearch
    \/ CollabApplyClick
    \/ DateTabClick
    \/ YearButtonClick
    \/ ApplyDateClick

SpecReload == InitReload /\ [][NextReload]_vars

\* the archive view with its filters and the answers to its requests, the clips
\* view with its language, and the channels
InitFilter == Started /\ loadLimit = MaxFilterLoads

NextFilter ==
    \/ SwitchToArchive
    \/ SwitchToClips
    \/ SwitchToHome
    \/ SelectChannel
    \/ LangChange
    \/ ArchiveTabClick
    \/ DateTabClick
    \/ YearButtonClick
    \/ ApplyDateClick
    \/ HideUnarchivedChange
    \/ ArchiveSettle

SpecFilter == InitFilter /\ [][NextFilter]_vars

\* everything but the record of the last call
callFrame ==
    <<appState, requestSerials, container, pagination, inFlightLiveRequests, clipCache,
      isAutoRefreshInFlight, isLivePollingInFlight, knownStreamIds, pendingLoads,
      pollWait, fetches, now, nextId, dispatched, netCalls, lastUser, loadLimit, putLog,
      ev, touches, store, selectedQuickYears, selectedQuickMonths, selectedDates,
      monthClickListeners, quickSelectBaseYear, timerVars, sync, profile>>

\* the checkboxes of the collaborator list in document order, which is the order
\* of the generations and not that of the values
CollabCheckboxes == <<"mB", "mA">>

\* the values the filter fields of the state take
CollabValues ==
    {JsStr(<<>>), JsArr(<<>>), JsArr(<<"mB">>), JsArr(<<"mA">>), JsArr(<<"mB", "mA">>)}
DateValues == {JsArr(<<>>), JsArr(<< <<2025, 1, 1>> >>), JsArr(<< <<2025, 1, 1>>, <<2025, 2, 1>> >>)}
YearValues == {JsNull, JsArr(<<>>), JsArr(<<2025>>), JsArr(<<2026, 2025>>)}
MonthValues == {JsNull, JsArr(<<>>), JsArr(<<1>>)}

\* searchLocalDb called with the fields of a state, as loadArchives calls it
SearchLocalDbCall ==
    \E query \in Queries, channelId \in Channels, offset \in {0, ITEMS_PER_PAGE},
       collab \in CollabValues, collabMode \in CollabModes, hideUnarchived \in BOOLEAN,
       filterDates \in DateValues, filterYears \in YearValues,
       filterMonths \in MonthValues, videoType \in VideoTypes :
        /\ call = NoCall
        /\ filterMonths.v # <<>> => filterYears.v # <<>>
        /\ call' = [fn |-> "searchLocalDb",
                    args |-> [query |-> query, channelId |-> channelId, offset |-> offset,
                              collab |-> collab, collabMode |-> collabMode,
                              hideUnarchived |-> hideUnarchived,
                              filterDates |-> filterDates, filterYears |-> filterYears,
                              filterMonths |-> filterMonths, videoType |-> videoType],
                    result |-> SearchParams(query, channelId, offset, collab, collabMode,
                                            hideUnarchived, filterDates, filterYears,
                                            filterMonths, videoType)]
        /\ UNCHANGED callFrame

\* the members whose checkbox is ticked after the clicks: a click flips its box
Ticked(clicks) ==
    {v \in {CollabCheckboxes[i] : i \in DOMAIN CollabCheckboxes} :
        Len(SelectSeq(clicks, LAMBDA c : c = v)) % 2 = 1}

\* getSelectedCollabMembers: querySelectorAll hands over the ticked boxes in
\* document order
GetSelectedCollabMembers(ticked) == SelectSeq(CollabCheckboxes, LAMBDA v : v \in ticked)

\* getSelectedCollabMembers, had it handed over the members in the order of the
\* clicks that ticked them
GetSelectedCollabMembersAsClicked(clicks) ==
    SelectSeq(clicks, LAMBDA c : c \in Ticked(clicks))

\* the collaborators as the apply button reads them after the clicks
SelectedAfter(clicks) == GetSelectedCollabMembers(Ticked(clicks))

ClickSequences ==
    UNION {[1..n -> {CollabCheckboxes[i] : i \in DOMAIN CollabCheckboxes}] : n \in 0..MaxClicks}

\* clicks on the collaborator checkboxes, then the apply button, in the archive
\* view with the other filters at their defaults: the query of the request
CollabApplyCall ==
    \E clicks \in ClickSequences, mode \in CollabModes, channelId \in Channels :
        /\ call = NoCall
        /\ call' = [fn |-> "collabApply",
                    args |-> [clicks |-> clicks, mode |-> mode],
                    result |-> SearchParams(NoQuery, channelId, 0,
                                            JsArr(SelectedAfter(clicks)), mode, FALSE,
                                            JsArr(<<>>), JsNull, JsNull, "all")]
        /\ UNCHANGED callFrame

NextQuery ==
    \/ SearchLocalDbCall
    \/ CollabApplyCall

SpecQuery == Init /\ [][NextQuery]_vars

(***************************************************************************)
(* The URL hash.  A hash is the sequence of its parameters, each a pair of *)
(* a name and a value; the value of page is the sequence of its            *)
(* characters, the other values are strings without & and =.               *)
(***************************************************************************)
\* params.get(name): the first value of the name, or nothing (null)
GetParam(hash, name) ==
    LET found == SelectSeq(hash, LAMBDA p : p[1] = name)
    IN  IF found = <<>> THEN <<>> ELSE <<found[1][2]>>

DigitChars == <<"0", "1", "2", "3", "4", "5", "6", "7", "8", "9">>

IsDigit(c) == \E i \in DOMAIN DigitChars : DigitChars[i] = c

DigitValue(c) == (CHOOSE i \in DOMAIN DigitChars : DigitChars[i] = c) - 1

\* the digits a string starts with
RECURSIVE LeadingDigits(_)
LeadingDigits(chars) ==
    IF chars = <<>> \/ ~IsDigit(Head(chars)) THEN <<>>
    ELSE <<Head(chars)>> \o LeadingDigits(Tail(chars))

RECURSIVE DecimalValue(_)
DecimalValue(digits) ==
    IF digits = <<>> THEN 0
    ELSE 10 * DecimalValue(SubSeq(digits, 1, Len(digits) - 1))
             + DigitValue(digits[Len(digits)])

NaN == [nan |-> TRUE, n |-> 0]

\* parseInt of a string without leading blanks: a sign, then the digits up to
\* the first other character; NaN without a digit
ParseInt(chars) ==
    LET signed == chars # <<>> /\ Head(chars) \in {"-", "+"}
        digits == LeadingDigits(IF signed THEN Tail(chars) ELSE chars)
    IN  IF digits = <<>> THEN NaN
        ELSE [nan |-> FALSE,
              n |-> IF signed /\ Head(chars) = "-" THEN 0 - DecimalValue(digits)
                                                   ELSE DecimalValue(digits)]

\* getStateFromHash; parseInt(null) reads the string "null" and is NaN, and
\* NaN and 0 are the values || replaces by 1
GetStateFromHash(hash) ==
    LET page == GetParam(hash, "page")
        parsed == IF page = <<>> THEN NaN ELSE ParseInt(page[1])
    IN  [channel |-> GetParam(hash, "channel"),
         view |-> GetParam(hash, "view"),
         page |-> IF parsed.nan \/ parsed.n = 0 THEN 1 ELSE parsed.n,
         videoType |-> GetParam(hash, "videoType")]

\* updateUrlHash, had it written the archive page in every view
UpdateUrlHashArchivePage(state) ==
    LET page == state.archivePage
        videoTypeParam == IF state.currentView = "archive" /\ state.videoType # "all"
                          THEN << <<"videoType", state.videoType>> >> ELSE <<>>
    IN  << <<"channel", state.currentChannelId>>, <<"view", state.currentView>>,
           <<"page", Digits(page)>> >> \o videoTypeParam

\* updateUrlHash: the hash it hands to history.replaceState
UpdateUrlHash(state) ==
    LET page == IF state.currentView = "archive" THEN state.archivePage
                ELSE IF state.currentView = "clips" THEN state.clipsPage ELSE 1
        videoTypeParam == IF state.currentView = "archive" /\ state.videoType # "all"
                          THEN << <<"videoType", state.videoType>> >> ELSE <<>>
    IN  << <<"channel", state.currentChannelId>>, <<"view", state.currentView>>,
           <<"page", Digits(page)>> >> \o videoTypeParam

\* a value of the hash that is there, is not the empty string and is one of valid
Accepted(param, valid) == param # <<>> /\ param[1] # "" /\ param[1] \in valid

\* restoreStateFromHash, had it taken every page
RestoreStateFromHashAnyPage(defaultState, hash) ==
    LET savedState == GetStateFromHash(hash)
        r1 == IF Accepted(savedState.channel, Channels)
              THEN [defaultState EXCEPT !.currentChannelId = savedState.channel[1]]
              ELSE defaultState
        r2 == IF Accepted(savedState.view, Views)
              THEN [r1 EXCEPT !.currentView = savedState.view[1]] ELSE r1
        r3 == [r2 EXCEPT
                  !.archivePage = IF r2.currentView = "archive" THEN savedState.page ELSE @,
                  !.clipsPage = IF r2.currentView = "clips" THEN savedState.page ELSE @]
    IN  IF Accepted(savedState.videoType, VideoTypes)
        THEN [r3 EXCEPT !.videoType = savedState.videoType[1]] ELSE r3

RestoreStateFromHash(defaultState, hash) ==
    LET savedState == GetStateFromHash(hash)
        r1 == IF Accepted(savedState.channel, Channels)
              THEN [defaultState EXCEPT !.currentChannelId = savedState.channel[1]]
              ELSE defaultState
        r2 == IF Accepted(savedState.view, Views)
              THEN [r1 EXCEPT !.currentView = savedState.view[1]] ELSE r1
        r3 == IF savedState.page > 0
              THEN [r2 EXCEPT
                       !.archivePage = IF r2.currentView = "archive"
                                       THEN savedState.page ELSE @,
                       !.clipsPage = IF r2.currentView = "clips"
                                     THEN savedState.page ELSE @]
              ELSE r2
    IN  IF Accepted(savedState.videoType, VideoTypes)
        THEN [r3 EXCEPT !.videoType = savedState.videoType[1]] ELSE r3

\* the values of the parameters of a hash: none, or one value
ChannelParams == {<<>>, <<"">>, <<"chX">>} \cup {<<c>> : c \in Channels}
ViewParams == {<<>>, <<"">>, <<"settings">>} \cup {<<v>> : v \in Views}
VideoTypeParams == {<<>>, <<"short">>} \cup {<<t>> : t \in VideoTypes}
PageStrings ==
    {<<>>, <<"0">>, <<"3">>, <<"1", "2">>, <<"-", "2">>, <<"+", "4">>, <<"a", "b">>,
     <<"2", ".", "5">>, <<"0", "7">>, <<"3", "x">>}
PageParams == {<<>>} \cup {<<p>> : p \in PageStrings}

Param(name, value) == IF value = <<>> THEN <<>> ELSE << <<name, value[1]>> >>

HashOf(channel, view, page, videoType) ==
    Param("channel", channel) \o Param("view", view) \o Param("page", page)
        \o Param("videoType", videoType)

\* init reads the hash the page was opened with
RestoreStateFromHashCall ==
    \E channel \in ChannelParams, view \in ViewParams, page \in PageParams,
       videoType \in VideoTypeParams :
        /\ call = NoCall
        /\ call' = [fn |-> "restoreStateFromHash",
                    args |-> [channel |-> channel, view |-> view, page |-> page,
                              videoType |-> videoType],
                    result |-> RestoreStateFromHash(INITIAL_STATE,
                                   HashOf(channel, view, page, videoType))]
        /\ UNCHANGED callFrame

\* the subscriber of the store writes the hash of a state, and the next load
\* of the page restores from it
HashRoundTripCall ==
    \E channel \in Channels, view \in Views, archivePage \in 1..MaxPage,
       clipsPage \in 1..MaxPage, videoType \in VideoTypes :
        LET state == [INITIAL_STATE EXCEPT !.currentChannelId = channel,
                                           !.currentView = view,
                                           !.archivePage = archivePage,
                                           !.clipsPage = clipsPage,
                                           !.videoType = videoType]
        IN  /\ call = NoCall
            /\ call' = [fn |-> "hashRoundTrip",
                        args |-> state,
                        result |-> RestoreStateFromHash(INITIAL_STATE, UpdateUrlHash(state))]
            /\ UNCHANGED callFrame

NextHash ==
    \/ RestoreStateFromHashCall
    \/ HashRoundTripCall

SpecHash == Init /\ [][NextHash]_vars

(***************************************************************************)
(* The elements renderPagination puts into the pagination container.       *)
(***************************************************************************)
CreateButton(page, text, isActive, isDisabled) ==
    [tag |-> "button", page |-> page, text |-> text, active |-> isActive,
     disabled |-> isDisabled]

EllipsisSpan ==
    [tag |-> "span", page |-> 0, text |-> <<".", ".", ".">>, active |-> FALSE,
     disabled |-> FALSE]

\* the input for a page number and its go button
InputGroup ==
    [tag |-> "div", page |-> 0, text |-> <<>>, active |-> FALSE, disabled |-> FALSE]

maxVisible == 10

\* startPage and endPage, had the window stayed centred at both ends
PageWindowCentred(currentPage, totalPages) ==
    IF totalPages <= maxVisible THEN [startPage |-> 1, endPage |-> totalPages]
    ELSE LET half == maxVisible \div 2
         IN  [startPage |-> currentPage - half, endPage |-> currentPage + half - 1]

\* startPage and endPage of the numbered buttons
PageWindow(currentPage, totalPages) ==
    IF totalPages <= maxVisible THEN [startPage |-> 1, endPage |-> totalPages]
    ELSE LET half == maxVisible \div 2
             startPage == currentPage - half
             endPage == currentPage + half - 1
         IN  IF startPage < 1 THEN [startPage |-> 1, endPage |-> maxVisible]
             ELSE IF endPage > totalPages
             THEN [startPage |-> totalPages - maxVisible + 1, endPage |-> totalPages]
             ELSE [startPage |-> startPage, endPage |-> endPage]

\* the children of the container after renderPagination, in document order
PaginationElements(currentPage, totalItems) ==
    LET totalPages == CeilDiv(totalItems, ITEMS_PER_PAGE)
        w == PageWindow(currentPage, totalPages)
        first == IF w.startPage > 1
                 THEN <<CreateButton(1, <<"1">>, FALSE, FALSE)>>
                          \o (IF w.startPage > 2 THEN <<EllipsisSpan>> ELSE <<>>)
                 ELSE <<>>
        range == [k \in 1..(w.endPage - w.startPage + 1) |->
                     LET i == w.startPage + k - 1
                     IN  CreateButton(i, Digits(i), i = currentPage, FALSE)]
        last == IF w.endPage < totalPages
                THEN (IF w.endPage < totalPages - 1 THEN <<EllipsisSpan>> ELSE <<>>)
                         \o <<CreateButton(totalPages, Digits(totalPages), FALSE, FALSE)>>
                ELSE <<>>
    IN  IF totalPages <= 1 THEN <<>>
        ELSE <<CreateButton(currentPage - 1, <<"<">>, FALSE, currentPage = 1)>>
                 \o first \o range \o last
                 \o <<CreateButton(currentPage + 1, <<">">>, FALSE, currentPage = totalPages)>>
                 \o <<InputGroup>>

\* the click listener of the go button: the page handed to onPageChange, or 0
\* when it alerts; a comparison with NaN is false
GoButtonClick(inputValue, totalPages) ==
    LET page == ParseInt(inputValue)
    IN  IF ~page.nan /\ page.n >= 1 /\ page.n <= totalPages THEN page.n ELSE 0

\* what the user may have typed into the page input
GoInputs ==
    {<<>>, <<"0">>, <<"1">>, <<"5">>, <<"-", "1">>, <<"2", ".", "5">>, <<"a">>,
     Digits(MaxTotalPages), Digits(MaxTotalPages + 1)}

\* the counts of items a response may report for a number of pages
ItemCounts(totalPages) ==
    IF totalPages = 0 THEN {0}
    ELSE {(totalPages - 1) * ITEMS_PER_PAGE + 1, totalPages * ITEMS_PER_PAGE}

RenderPaginationCall ==
    \E totalPages \in 0..MaxTotalPages :
        \E totalItems \in ItemCounts(totalPages), currentPage \in 1..totalPages \cup {1} :
            /\ call = NoCall
            /\ call' = [fn |-> "renderPagination",
                        args |-> [currentPage |-> currentPage, totalItems |-> totalItems,
                                  totalPages |-> totalPages],
                        result |-> PaginationElements(currentPage, totalItems)]
            /\ UNCHANGED callFrame

GoButtonClickCall ==
    \E totalPages \in 2..MaxTotalPages, inputValue \in GoInputs :
        /\ call = NoCall
        /\ call' = [fn |-> "goButtonClick",
                    args |-> [inputValue |-> inputValue, totalPages |-> totalPages],
                    result |-> GoButtonClick(inputValue, totalPages)]
        /\ UNCHANGED callFrame

NextPagination ==
    \/ RenderPaginationCall
    \/ GoButtonClickCall

SpecPagination == Init /\ [][NextPagination]_vars

\* the tab is hidden, or comes back on screen: visibilitychange
VisibilityChange ==
    /\ timers.next + 1 <= MaxTimers
    /\ documentHidden' = ~documentHidden
    /\ LET T == VisibilityHandler([refreshInterval |-> refreshInterval,
                                   pollingInterval |-> pollingInterval,
                                   timers |-> timers], ~documentHidden)
       IN  /\ refreshInterval' = T.refreshInterval
           /\ pollingInterval' = T.pollingInterval
           /\ timers' = T.timers
    /\ ev' = NoCacheOp
    /\ UNCHANGED <<appState, requestSerials, container, pagination, inFlightLiveRequests,
                   clipCache, isAutoRefreshInFlight, pollVars, pendingLoads, fetches, now,
                   nextId, dispatched, netCalls, lastUser, loadLimit, putLog, touches,
                   store, selectedQuickYears, selectedQuickMonths, selectedDates,
                   monthClickListeners, quickSelectBaseYear, call, sync, profile>>

SwitchToLive == SwitchTo("live")

(***************************************************************************)
(* The sync of the local database.  sync.interval: syncPollInterval is     *)
(* set; sync.requests: the requests in flight, "check" by checkApiKey,     *)
(* "trigger" by startFullSync, "status" by checkStatus; sync.timeouts: the *)
(* timeouts checkStatus has set that end in location.reload();             *)
(* sync.searchDisabled: the search input and button are disabled;          *)
(* sync.reloads: history, the reloads so far.  The                         *)
(* overlay and the toast that checkStatus also updates are                 *)
(* left out; isInitialSync is true in every call of startSyncPolling.      *)
(***************************************************************************)
\* what GET /sync/status may answer
SyncStatusResponses ==
    {[ok |-> FALSE, isSyncing |-> FALSE],
     [ok |-> TRUE, isSyncing |-> FALSE],
     [ok |-> TRUE, isSyncing |-> TRUE]}

\* getSyncStatus after its await: a failure reads as "not syncing"
GetSyncStatus(resp) == [isSyncing |-> IF ~resp.ok THEN FALSE ELSE resp.isSyncing]

\* W: the store's state and the sync variables a sync handler works on
\* startSyncPolling: checkStatus() up to its await, and the interval
StartSyncPolling(W) ==
    IF W.sync.interval THEN W
    ELSE [W EXCEPT !.sync.interval = TRUE,
                   !.sync.requests = Append(@, "status"),
                   !.sync.issued = @ + 1]

ClearSyncPolling(W) ==
    [W EXCEPT !.sync.interval = FALSE,
              !.state = SetState(@, [isSyncing |-> FALSE])]

\* checkStatus after its await
CheckStatus(W, status) ==
    LET wasSyncing == W.state.isSyncing
        W1 == [W EXCEPT !.state = SetState(@, [isSyncing |-> status.isSyncing])]
    IN  IF status.isSyncing THEN [W1 EXCEPT !.sync.searchDisabled = TRUE]
        ELSE [ClearSyncPolling([W1 EXCEPT !.sync.timeouts =
                                    IF wasSyncing THEN @ + 1 ELSE @])
                EXCEPT !.sync.searchDisabled = FALSE]

\* the then() of checkApiKey
CheckApiKeyThen(W, status) == IF status.isSyncing THEN StartSyncPolling(W) ELSE W

SyncCur == [state |-> appState, sync |-> sync]

syncFrame ==
    <<requestSerials, container, pagination, inFlightLiveRequests, clipCache,
      isAutoRefreshInFlight, pollVars, pendingLoads, fetches, now, nextId, dispatched,
      netCalls, lastUser, loadLimit, putLog, touches, store, selectedQuickYears,
      selectedQuickMonths, selectedDates, monthClickListeners, quickSelectBaseYear, call, timerVars,
      profile>>

SyncCommit(W) ==
    /\ W.sync.issued <= MaxSyncRequests
    /\ appState' = W.state
    /\ sync' = W.sync
    /\ ev' = NoCacheOp
    /\ UNCHANGED syncFrame

SyncRequestAt(i, kind) == i \in DOMAIN sync.requests /\ sync.requests[i] = kind
SyncSettled(W, i) == [W EXCEPT !.sync.requests = RemoveAt(@, i)]

\* a click on the start-sync button: startFullSync up to its await
StartSyncClick ==
    SyncCommit([SyncCur EXCEPT !.state = SetState(@, [isSyncing |-> TRUE]),
                               !.sync.requests = Append(@, "trigger"),
                               !.sync.issued = @ + 1])

\* the answer to POST /api/sync arrives: startFullSync after its await
SyncTriggerSettleWith(ok) ==
    \E i \in DOMAIN sync.requests :
        /\ SyncRequestAt(i, "trigger")
        /\ SyncCommit(IF ok THEN StartSyncPolling(SyncSettled(SyncCur, i))
                            ELSE SyncSettled(SyncCur, i))

SyncTriggerSettle == \E ok \in BOOLEAN : SyncTriggerSettleWith(ok)

\* a tick of syncPollInterval: checkStatus up to its await
SyncPollTick ==
    /\ sync.interval
    /\ SyncCommit([SyncCur EXCEPT !.sync.requests = Append(@, "status"),
                                  !.sync.issued = @ + 1])

\* the answer to GET /sync/status arrives
SyncStatusSettleWith(resp) ==
    \E i \in DOMAIN sync.requests :
        \/ /\ SyncRequestAt(i, "status")
           /\ SyncCommit(CheckStatus(SyncSettled(SyncCur, i), GetSyncStatus(resp)))
        \/ /\ SyncRequestAt(i, "check")
           /\ SyncCommit(CheckApiKeyThen(SyncSettled(SyncCur, i), GetSyncStatus(resp)))

SyncStatusSettle == \E resp \in SyncStatusResponses : SyncStatusSettleWith(resp)

\* the timeout of checkStatus after a sync that was running: location.reload(),
\* the page starts over
SyncReloadTimeout ==
    /\ sync.timeouts > 0
    /\ sync.reloads < MaxPageReloads
    /\ appState' = AfterInit.appState
    /\ requestSerials' = AfterInit.requestSerials
    /\ container' = AfterInit.container
    /\ pagination' = AfterInit.pagination
    /\ inFlightLiveRequests' = AfterInit.inFlightLiveRequests
    /\ clipCache' = AfterInit.clipCache
    /\ isAutoRefreshInFlight' = FALSE
    /\ isLivePollingInFlight' = FALSE
    /\ knownStreamIds' = {}
    /\ pendingLoads' = AfterInit.pendingLoads
    /\ pollWait' = 0
    /\ fetches' = AfterInit.fetches
    /\ nextId' = AfterInit.nextId
    /\ dispatched' = AfterInit.dispatched
    /\ netCalls' = AfterInit.netCalls
    /\ lastUser' = AfterInit.lastUser
    /\ putLog' = AfterInit.putLog
    /\ touches' = AfterInit.touches
    /\ ev' = NoCacheOp
    /\ store' = StoreConstructed
    /\ selectedQuickYears' = AfterInit.selectedQuickYears
    /\ selectedQuickMonths' = AfterInit.selectedQuickMonths
    /\ selectedDates' = AfterInit.selectedDates
    /\ monthClickListeners' = AfterInit.monthClickListeners
    /\ quickSelectBaseYear' = AfterInit.quickSelectBaseYear
    /\ profile' = AfterInitWith(profile.cached).profile
    /\ refreshInterval' = TimersAfterInit.refreshInterval
    /\ pollingInterval' = TimersAfterInit.pollingInterval
    /\ timers' = TimersAfterInit.timers
    /\ sync' = [SyncAfterInit EXCEPT !.reloads = sync.reloads + 1]
    /\ UNCHANGED <<now, loadLimit, call, documentHidden>>

\* the sync of the database next to the archive and clip views
InitSync == Started /\ loadLimit = MaxSyncLoads

NextSync ==
    \/ StartSyncClick
    \/ SyncTriggerSettle
    \/ SyncPollTick
    \/ SyncStatusSettle
    \/ SyncReloadTimeout
    \/ SwitchToLive
    \/ SwitchToArchive
    \/ SwitchToClips
    \/ LiveSettle
    \/ ArchiveSettle
    \/ ClipsSettle

SpecSync == InitSync /\ [][NextSync]_vars

\* the live view with its two timers, in a tab that may have been loaded hidden
InitPoll == Loaded /\ documentHidden \in BOOLEAN /\ loadLimit = MaxPollLoads

NextPoll ==
    \/ SwitchToLive
    \/ AutoRefreshTick
    \/ LivePollingTick
    \/ LiveSettle
    \/ VisibilityChange

SpecPoll == InitPoll /\ [][NextPoll]_vars

\* every request the page has dispatched is answered in the end, with a
\* payload or with a failure
InitSettling == Started /\ loadLimit = MaxSettlingLoads

NextSettling ==
    \/ SwitchToLive
    \/ SwitchToArchive
    \/ SwitchToClips
    \/ HandlePageChange
    \/ LiveSettle
    \/ ArchiveSettle
    \/ ClipsSettle

SpecSettling ==
    /\ InitSettling /\ [][NextSettling]_vars
    /\ WF_vars(LiveSettle) /\ WF_vars(ArchiveSettle) /\ WF_vars(ClipsSettle)

\* the answer to a channel info request arrives
ChannelInfoSettle ==
    \E c \in Channels, ok \in BOOLEAN :
        /\ profile.requests[c] > 0
        /\ Commit(ChannelInfoContinue([Cur EXCEPT !.profile.requests[c] = @ - 1], c, ok))
        /\ UNCHANGED <<pollVars, now, loadLimit>>

\* prefetchChannelInfo after its await: the infos of all channels are cached
\* and the profile of the current channel is loaded again
PrefetchContinue(m, ok) ==
    LET m1 == [m EXCEPT !.profile.prefetch = FALSE]
    IN  IF ~ok THEN m1
        ELSE LET m2 == [m1 EXCEPT !.profile.cached = Channels]
             IN  IF m2.appState.currentChannelId = "null" THEN m2
                 ELSE LoadChannelInfo(m2, m2.appState.currentChannelId)

\* the answer to the batch request of prefetchChannelInfo arrives
PrefetchSettle ==
    \E ok \in BOOLEAN :
        /\ profile.prefetch
        /\ Commit(PrefetchContinue(Cur, ok))
        /\ UNCHANGED <<pollVars, now, loadLimit>>

\* the channel list and the profile panel
InitProfile == Started /\ loadLimit = MaxProfileLoads

NextProfile ==
    \/ SelectChannel
    \/ ChannelInfoSettle
    \/ PrefetchSettle

SpecProfile == InitProfile /\ [][NextProfile]_vars

\* a backend whose search has shrunk to a single page
OnePageResponse == [kind |-> "json", items |-> <<"a1">>, total |-> 20]
ArchiveSettleOnePage == ArchiveSettleWith(OnePageResponse)

\* the archive view with its pages, and a backend whose total may shrink
InitRedirect == Started /\ loadLimit = MaxRedirectLoads

NextRedirect ==
    \/ SwitchToArchive
    \/ HandlePageChange
    \/ ArchiveSettle
    \/ ArchiveSettleOnePage

SpecRedirect == InitRedirect /\ [][NextRedirect]_vars

\* the archive view with its pages and the channel list
InitOnScreen == Started /\ loadLimit = MaxOnScreenLoads

NextOnScreen ==
    \/ SwitchToArchive
    \/ SelectChannel
    \/ HandlePageChange
    \/ ArchiveSettle

SpecOnScreen == InitOnScreen /\ [][NextOnScreen]_vars

(***************************************************************************)
(* Properties.                                                             *)
(***************************************************************************)
ResultKinds == {"items", "empty", "error", "sync"}

LoadsOf(stream) == SelectSeq(pendingLoads, LAMBDA l : l.stream = stream)
FetchesOf(stream) == SelectSeq(fetches, LAMBDA f : f.stream = stream)
FetchIds == {fetches[i].id : i \in DOMAIN fetches}

\* C1: stale discard. A result shown in a stream's container comes from the
\* load a handler dispatched last for that stream (or from the page reload
\* that load made for itself), never from an earlier, superseded load.
C1_OnlyLatestDispatchApplied ==
    \A s \in Streams :
        container[s].kind \in ResultKinds => container[s].root = lastUser[s]

\* the loads that receive their response in this step
ResolvedNow ==
    {pendingLoads[i] : i \in {j \in DOMAIN pendingLoads :
        \A k \in DOMAIN pendingLoads' : pendingLoads'[k].id # pendingLoads[j].id}}

\* C2: a superseded response has no effect at all. A step in which every
\* response handed over is superseded changes no field of the state store
\* and no container, starts no load and no network request, and moves no
\* serial; also when the response's total puts the requested page beyond
\* the last page.
C2_SupersededResponseHasNoEffect ==
    [][(/\ ResolvedNow # {}
        /\ \A l \in ResolvedNow : l.serial # requestSerials[l.stream])
       => UNCHANGED <<appState, container, pagination, requestSerials, dispatched,
                      netCalls>>]_vars

\* C3: coalescing on the live stream. At most one network request per key
\* is in flight, and live loads of the same channel that are pending together
\* await the same request, hence receive the same value.
C3_LiveCoalescing ==
    /\ \A i, j \in DOMAIN fetches :
          (fetches[i].stream = "live" /\ fetches[j].stream = "live"
           /\ fetches[i].key = fetches[j].key) => i = j
    /\ \A i, j \in DOMAIN pendingLoads :
          (pendingLoads[i].stream = "live" /\ pendingLoads[j].stream = "live"
           /\ pendingLoads[i].channelId = pendingLoads[j].channelId)
          => pendingLoads[i].fetch = pendingLoads[j].fetch

\* two live loads of one channel are pending and one request was made for them
C3_Witness ==
    /\ Len(LoadsOf("live")) = 2
    /\ LoadsOf("live")[1].channelId = LoadsOf("live")[2].channelId
    /\ LoadsOf("live")[1].fetch = LoadsOf("live")[2].fetch
    /\ netCalls["live"] = 1

\* C4: the in-flight map holds exactly the keys of the live requests that
\* are still pending: a key leaves the map when its request settles, so that
\* every pending live load awaits a request that is still in flight and a
\* later call with the key starts a new request.
C4_InFlightMapHoldsPendingOnly ==
    /\ \A k \in DOMAIN inFlightLiveRequests :
          \E i \in DOMAIN fetches :
              /\ fetches[i].stream = "live"
              /\ fetches[i].key = k
              /\ fetches[i].id = inFlightLiveRequests[k]
    /\ \A i \in DOMAIN fetches :
          fetches[i].stream = "live" =>
              /\ fetches[i].key \in DOMAIN inFlightLiveRequests
              /\ inFlightLiveRequests[fetches[i].key] = fetches[i].id
    /\ \A i \in DOMAIN pendingLoads :
          pendingLoads[i].stream = "live" => pendingLoads[i].fetch \in FetchIds

\* a request shared by two live loads has settled, its key is gone, and the
\* later load's result is on screen
C4_Witness ==
    /\ dispatched["live"] = 2
    /\ netCalls["live"] = 1
    /\ fetches = <<>>
    /\ DOMAIN inFlightLiveRequests = {}
    /\ container["live"].kind = "items"

\* C5 as stated: loads coalesced into one network request share one serial
\* increment, so neither is stale because of the other.
C5_CoalescedLoadsShareSerial ==
    \A i, j \in DOMAIN pendingLoads :
        (pendingLoads[i].stream = "live" /\ pendingLoads[j].stream = "live"
         /\ pendingLoads[i].fetch = pendingLoads[j].fetch)
        => pendingLoads[i].serial = pendingLoads[j].serial

\* C5, amended: each stream's serial starts at 0 and counts the invocations
\* of the stream's load function, one increment each, whether or not the
\* invocation shares a network request; pending loads of a stream hold
\* distinct serials, increasing in dispatch order, up to the current serial.
C5_SerialCountsLoadInvocations ==
    \A s \in Streams :
        /\ requestSerials[s] = dispatched[s]
        /\ \A i, j \in DOMAIN pendingLoads :
              (pendingLoads[i].stream = s /\ pendingLoads[j].stream = s /\ i < j)
              => /\ 1 <= pendingLoads[i].serial
                 /\ pendingLoads[i].serial < pendingLoads[j].serial
                 /\ pendingLoads[j].serial <= requestSerials[s]

\* two live loads share one request and hold different serials
C5_Witness ==
    /\ Len(LoadsOf("live")) = 2
    /\ LoadsOf("live")[1].fetch = LoadsOf("live")[2].fetch
    /\ LoadsOf("live")[1].serial = 1
    /\ LoadsOf("live")[2].serial = 2
    /\ requestSerials["live"] = 2

C7_ValidIffBeforeExpiry ==
    ev.op = "get" => (ev.hit <=> (ev.found /\ now < ev.expiry))

\* C8: TTL expiry. A lookup that finds an entry before its expiry time
\* returns the payload stored and keeps the entry; a lookup after the expiry
\* time returns absent and deletes the entry, so the cache holds one entry
\* less and the key is gone.
C8_TtlExpiry ==
    (ev.op = "get" /\ ev.found) =>
        /\ now < ev.expiry =>
              /\ ev.hit
              /\ ev.dropped = 0
              /\ clipCache # <<>>
              /\ clipCache[Len(clipCache)].key = ev.key
              /\ clipCache[Len(clipCache)].data.items = ev.data
        /\ now > ev.expiry =>
              /\ ~ev.hit
              /\ ev.dropped = 1
              /\ CacheIndex(clipCache, ev.key) = 0

\* a lookup one tick after the entry's expiry time found it and deleted it
C8_Witness ==
    /\ ev.op = "get"
    /\ ev.found
    /\ ~ev.hit
    /\ now = ev.expiry + 1
    /\ ev.dropped = 1

Min(a, b) == IF a < b THEN a ELSE b

\* C9: bounded size. The cache never holds more than the maximum number of
\* entries, and after puts of distinct keys, none expired and no lookup of a
\* stored key among them, it holds the keys put last, in the order put: of
\* max + k puts the k earliest are gone.
C9_BoundedSize ==
    /\ Len(clipCache) <= CLIP_CACHE_MAX_ENTRIES
    /\ putLog.clean =>
          LET n == Len(putLog.keys)
              kept == Min(n, CLIP_CACHE_MAX_ENTRIES)
          IN  CacheKeys(clipCache) = SubSeq(putLog.keys, n - kept + 1, n)

\* one put more than the maximum has been made, all of distinct live keys
C9_Witness ==
    /\ putLog.clean
    /\ Len(putLog.keys) = CLIP_CACHE_MAX_ENTRIES + 1
    /\ ev.op = "put"
    /\ ev.dropped = 1

\* C10 as stated: after every put no expired entry is left in the cache,
\* whether or not the cache is over its size limit.
C10_EveryPutRemovesExpired ==
    ev.op = "put" => \A i \in DOMAIN clipCache : clipCache[i].expiry > now

\* C10, amended: eviction acts only when the put leaves the cache over its
\* size limit. Then every entry with expiry <= now is removed before any
\* other, and the cache ends within the limit; a put that leaves the cache at
\* or under the limit removes nothing, expired entries included.
C10_PutRemovesExpiredOnlyOverLimit ==
    [][ev'.op = "put" =>
        IF Len(clipCache) + (IF ev'.found THEN 0 ELSE 1) > CLIP_CACHE_MAX_ENTRIES
        THEN /\ \A i \in DOMAIN clipCache' : clipCache'[i].expiry > now
             /\ Len(clipCache') <= CLIP_CACHE_MAX_ENTRIES
             /\ ev'.dropped = Len(SelectSeq(clipCache, LAMBDA e : e.expiry <= now))
                              + Max(0, Len(SelectSeq(clipCache, LAMBDA e : e.expiry > now))
                                       + 1 - CLIP_CACHE_MAX_ENTRIES)
        ELSE /\ ev'.dropped = 0
             /\ \A i \in DOMAIN clipCache :
                   CacheIndex(clipCache', clipCache[i].key) # 0]_vars

\* a put over the limit removed two expired entries and left the cache
\* under the limit
C10_Witness ==
    /\ ev.op = "put"
    /\ ~ev.found
    /\ ev.dropped = 2
    /\ Len(clipCache) = 1

\* the entry the cache holds for a key that it holds
EntryOf(cache, key) == cache[CacheIndex(cache, key)]

\* the keys of the still-valid entries, least recently touched first
ValidTouched == SelectSeq(touches, LAMBDA r : EntryOf(clipCache, r.key).expiry > now)

\* C11: eviction by recency. When a put leaves the cache over its size limit,
\* a still-valid entry is evicted only if no expired entry remains, the valid
\* entries evicted are the least recently touched ones (a put, also one that
\* overwrites, and a lookup hit are touches), the cache ends at the limit,
\* and the entry just put stays.
C11_EvictsLeastRecentlyTouched ==
    [][(ev'.op = "put" /\ ~ev'.found /\ Len(clipCache) + 1 > CLIP_CACHE_MAX_ENTRIES) =>
        LET evicted == {i \in DOMAIN ValidTouched :
                            CacheIndex(clipCache', ValidTouched[i].key) = 0}
        IN  /\ evicted = 1..Cardinality(evicted)
            /\ evicted # {} =>
                  /\ \A j \in DOMAIN clipCache' : clipCache'[j].expiry > now
                  /\ Len(clipCache') = CLIP_CACHE_MAX_ENTRIES
            /\ CacheIndex(clipCache', ev'.key) # 0]_vars

\* position of a key in the record of touches (0: none)
TouchIndexIn(ts, key) ==
    IF \E i \in DOMAIN ts : ts[i].key = key
    THEN CHOOSE i \in DOMAIN ts : ts[i].key = key
    ELSE 0

TouchIndex(key) == TouchIndexIn(touches, key)

\* C12: a lookup hit refreshes recency. A lookup that returns a payload makes
\* its entry the last in eviction order and changes nothing else; a lookup
\* that misses leaves the cache as it is and one that finds an expired entry
\* only removes that entry. Hence an entry whose last touch is a hit stands
\* behind every entry touched before that hit, and when a put evicts it
\* while valid, every valid entry not touched since the hit is evicted too.
C12_HitRefreshesRecency ==
    [][/\ ev'.op = "get" =>
            LET i == CacheIndex(clipCache, ev'.key)
            IN  clipCache' = IF ev'.hit THEN Append(RemoveAt(clipCache, i), clipCache[i])
                             ELSE IF ev'.found THEN RemoveAt(clipCache, i)
                             ELSE clipCache
       /\ \A p, q \in DOMAIN touches' :
             (q < p /\ touches'[p].by = "hit")
             => CacheIndex(clipCache', touches'[q].key)
                    < CacheIndex(clipCache', touches'[p].key)
       /\ ev'.op = "put" =>
             \A p, q \in DOMAIN ValidTouched :
                (/\ q < p
                 /\ ValidTouched[p].by = "hit"
                 /\ CacheIndex(clipCache', ValidTouched[p].key) = 0)
                => CacheIndex(clipCache', ValidTouched[q].key) = 0]_vars

\* a put over the limit has evicted an entry and kept the one stored before
\* it, which a lookup hit had refreshed
C12_Witness ==
    /\ ev.op = "put"
    /\ ev.dropped = 1
    /\ Len(touches) = CLIP_CACHE_MAX_ENTRIES
    /\ touches[1].by = "hit"
    /\ putLog = Dirty
    /\ CacheIndex(clipCache, touches[1].key) = 1

\* C13: the cache answers identical queries. A clips query whose key has an
\* entry that has not expired is answered in the same step, without a
\* network request, with the payload of the last put for that key; the
\* query that stored an entry and any query the entry answers agree in
\* channel, offset, trimmed search text and language; and the cache holds
\* for each key the payload of the key's last put.
C13_CacheAnswersIdenticalQueries ==
    [][/\ (ev'.op = "get" /\ ev'.found /\ now < ev'.expiry) =>
             /\ ev'.hit
             /\ netCalls' = netCalls
             /\ fetches' = fetches
             /\ pendingLoads' = pendingLoads
             /\ ev'.data = touches[TouchIndex(ev'.key)].items
       /\ (ev'.op = "get" /\ ev'.found) => ev'.args = touches[TouchIndex(ev'.key)].args
       /\ (ev'.op = "put" /\ ev'.found) => ev'.args = touches[TouchIndex(ev'.key)].args
       /\ \A i \in DOMAIN clipCache' :
             /\ TouchIndexIn(touches', clipCache'[i].key) # 0
             /\ clipCache'[i].data.items
                    = touches'[TouchIndexIn(touches', clipCache'[i].key)].items]_vars

\* a search text with a colon in it has been answered from the cache
C13_Witness ==
    /\ ev.op = "get"
    /\ ev.hit
    /\ \E i \in DOMAIN ev.args[3] : ev.args[3][i] = ":"
    /\ ev.data # <<>>
    /\ container["clips"].kind = "items"
    /\ container["clips"].items = ev.data
    /\ netCalls["clips"] < dispatched["clips"]

\* two values of the field k are equal, arrays element by element
SameFieldValue(heap, k, a, b) ==
    IF k \in ArrayFields
    THEN Deref(heap, k, a).t = Deref(heap, k, b).t /\ Deref(heap, k, a).v = Deref(heap, k, b).v
    ELSE a = b

\* every field the last setState call supplied equalled the state's field
SuppliedEqual ==
    \A k \in store'.op.keys :
        SameFieldValue(store'.heap, k, store.state[k], store'.op.p[k])

\* every field the last setState call supplied was the state's very value
SuppliedIdentical ==
    \A k \in store'.op.keys : StoreObjectIs(k, store.state[k], store'.op.p[k])

\* C14 as stated: an update all of whose fields equal the state's fields
\* returns a snapshot equal to the state and leaves _state bound to the
\* object it was bound to.
C14_EqualUpdateKeepsStateObject ==
    [][(store'.op.name = "setState" /\ store'.op.object /\ SuppliedEqual) =>
        /\ View(store'.heap, store'.snap) = View(store.heap, store.state)
        /\ ~store'.op.replaced
        /\ store'.state = store.state]_vars

\* C14, amended: the test is Object.is. An update all of whose fields are
\* identical to the state's (equal primitives, the same array object) leaves
\* _state bound to its object; an update that supplies an equal value in
\* another array object binds _state to a new object with equal contents.
\* Either way the snapshot returned equals the state before, and the same
\* update applied again changes nothing.
C14_IdenticalUpdateKeepsStateObject ==
    [][(store'.op.name = "setState" /\ store'.op.object) =>
        /\ SuppliedIdentical => (~store'.op.replaced /\ store'.state = store.state)
        /\ (SuppliedEqual /\ ~SuppliedIdentical) => store'.op.replaced
        /\ SuppliedEqual =>
              /\ View(store'.heap, store'.snap) = View(store.heap, store.state)
              /\ View(store'.heap, store'.state) = View(store.heap, store.state)
        /\ StoreSetState(store', [object |-> TRUE, p |-> store'.op.p]).state
               = store'.state]_vars

\* an update that hands back the state's own filterDates array has left
\* _state bound to its object
C14_Witness ==
    /\ store.op.name = "setState"
    /\ store.op.object
    /\ ~store.op.replaced
    /\ "filterDates" \in store.op.keys
    /\ IsRef(store.state.filterDates)

\* C16: merge update frame. setState(p) leaves every field p does not name
\* as it was and gives every field p names the value supplied, and returns
\* the state so reached; called with no argument or with one that is not an
\* object it changes nothing and returns the current state.
C16_MergeUpdateFrame ==
    [][store'.op.name = "setState" =>
        IF ~store'.op.object
        THEN /\ store'.state = store.state
             /\ ~store'.op.replaced
             /\ store'.snap = store.state
             /\ store'.heap = store.heap
        ELSE /\ DOMAIN store'.state = DOMAIN store.state
             /\ \A k \in DOMAIN store.state :
                   IF k \in store'.op.keys
                   THEN StoreObjectIs(k, store'.state[k], store'.op.p[k])
                   ELSE StoreObjectIs(k, store'.state[k], store.state[k])
             /\ store'.snap = store'.state
             /\ store'.initial = store.initial]_vars

\* an update of filterDates alone has replaced the state and kept the page
\* and the flag set by earlier updates
C16_Witness ==
    /\ store.op.name = "setState"
    /\ store.op.replaced
    /\ store.op.keys = {"filterDates"}
    /\ store.state.archivePage = 2
    /\ store.state.hideUnarchived

\* C17: getState returns a defensive copy. Whatever the caller does to the
\* snapshot it holds, assigning to its fields or changing the arrays in its
\* collection-valued fields, the state later getState calls return and the
\* defaults resetState restores stay as they were.
C17_SnapshotIsDefensiveCopy ==
    [][store'.op.name \in {"push", "assign"} =>
        /\ View(store'.heap, store'.state) = View(store.heap, store.state)
        /\ View(store'.heap, store'.initial) = View(store.heap, store.initial)]_vars

\* a field of the state that holds a non-empty array
Selected(x) == x.t = "arr" /\ Len(x.v) > 0

\* C20: in every reachable state a non-empty selection of months comes with a
\* non-empty selection of years, in the pending quick selection
\* (selectedQuickMonths, selectedQuickYears) and in the applied filter
\* (filterMonths, filterYears): no month is selected while no year is, and
\* deselecting the last year or clearing the date filter leaves no month
C20_MonthsImplyYears ==
    /\ Len(selectedQuickMonths) > 0 => Len(selectedQuickYears) > 0
    /\ Selected(appState.filterMonths) => Selected(appState.filterYears)

\* a selection of a year and a month was applied, and the last year has been
\* deselected since
C20_Witness ==
    /\ Selected(appState.filterMonths)
    /\ Selected(appState.filterYears)
    /\ monthClickListeners > 0
    /\ selectedQuickYears = <<>>
    /\ selectedQuickMonths = <<>>
    /\ selectedDates = <<>>
    /\ appState.filterDates.v # <<>>

\* C15 as stated: a user action whose state update changes no field of the
\* state (the same search text submitted again on page 1, an identical
\* collaborator or date filter applied again) dispatches no archive or clips
\* request and increments no serial.
C15_NoOpUpdateDispatchesNothing ==
    [][((PerformSearch \/ CollabApplyClick \/ ApplyDateClick) /\ appState' = appState)
          => /\ dispatched'["archive"] = dispatched["archive"]
             /\ dispatched'["clips"] = dispatched["clips"]
             /\ requestSerials' = requestSerials]_vars

\* C15, amended: the handlers reload whether or not the update changed a
\* field: a search in the archive or clips view dispatches one request of that
\* view, the collaborator filter one archive request and the apply button of
\* the date tab two, and each request increments the serial of its stream.
C15_HandlersReloadUnconditionally ==
    [][/\ \A view \in {"archive", "clips"} :
             (PerformSearch /\ appState.currentView = view)
                 => /\ dispatched'[view] = dispatched[view] + 1
                    /\ requestSerials'[view] = requestSerials[view] + 1
       /\ CollabApplyClick
             => /\ dispatched'["archive"] = dispatched["archive"] + 1
                /\ requestSerials'["archive"] = requestSerials["archive"] + 1
       /\ ApplyDateClick
             => /\ dispatched'["archive"] = dispatched["archive"] + 2
                /\ requestSerials'["archive"] = requestSerials["archive"] + 2]_vars

\* the search text of the state was submitted again on page 1 of the archive
\* view: the request of the view's load and the request of the search are both
\* in flight and the same
C15_Witness ==
    /\ appState.currentView = "archive"
    /\ appState.currentSearchQuery = <<"m">>
    /\ appState.archivePage = 1
    /\ requestSerials["archive"] = 2
    /\ Len(LoadsOf("archive")) = 2
    /\ \A i \in DOMAIN fetches :
          /\ fetches[i].stream = "archive"
          /\ fetches[i].key = fetches[1].key
          /\ fetches[i].key["q"] = <<"m">>
          /\ fetches[i].key["offset"] = 0

\* C18: a click on a channel of the side bar (selectChannel without
\* preservePage) leaves every filter field at its default, whatever the
\* filters were: no search text, no collaborator with mode 'or', hideUnarchived
\* false, no dates, no years, no months, videoType 'all', clip language 'all';
\* and archivePage and clipsPage are 1.
C18_ChannelSwitchResetsFilters ==
    [][SelectChannel
          => /\ appState'.currentSearchQuery = NoQuery
             /\ appState'.collabFilter.v = <<>>
             /\ appState'.collabMode = "or"
             /\ appState'.hideUnarchived = FALSE
             /\ appState'.filterDates.v = <<>>
             /\ ~Selected(appState'.filterYears)
             /\ ~Selected(appState'.filterMonths)
             /\ appState'.videoType = INITIAL_STATE.videoType
             /\ appState'.clipLang = INITIAL_STATE.clipLang
             /\ appState'.archivePage = 1
             /\ appState'.clipsPage = 1]_vars

\* the parameters of an archive request that carry a filter of the archive view
FilterParams ==
    {"hide_unarchived", "filter_dates", "filter_years", "filter_months", "video_type"}

\* C19: a click on another channel of the side bar dispatches, in whatever
\* view, no archive request for the new channel that carries a filter set for
\* the channel left behind: hide_unarchived, filter_dates, filter_years,
\* filter_months or video_type.  (Where this fails, the claim's second half, that
\* no answer to such a request is rendered, has a request to fail on.)
C19_NoCrossChannelFilterLeak ==
    [][(\E c \in Channels \ {appState.currentChannelId} :
            Handler(SelectChannelCall(Cur, c, FALSE)))
          => \A i \in DOMAIN fetches' :
                 (/\ fetches'[i].stream = "archive"
                  /\ fetches'[i].id >= nextId
                  /\ fetches'[i].key["channel_id"] = appState'.currentChannelId)
                     => DOMAIN fetches'[i].key \cap FilterParams = {}]_vars

\* of a call of searchLocalDb: every filter but the search text is left out of
\* the query at its default and sent with its value otherwise
FiltersOmittedAtDefault(a, r) ==
    /\ "collab" \in DOMAIN r <=> (a.collab.t = "arr" /\ a.collab.v # <<>>)
    /\ "collab_mode" \in DOMAIN r <=> "collab" \in DOMAIN r
    /\ "collab" \in DOMAIN r => r["collab"] = Join(a.collab.v)
                                 /\ r["collab_mode"] = a.collabMode
    /\ "hide_unarchived" \in DOMAIN r <=> a.hideUnarchived
    /\ "hide_unarchived" \in DOMAIN r => r["hide_unarchived"] = "true"
    /\ "filter_dates" \in DOMAIN r <=> Selected(a.filterDates)
    /\ "filter_dates" \in DOMAIN r => r["filter_dates"] = Join(a.filterDates.v)
    /\ "filter_years" \in DOMAIN r <=> Selected(a.filterYears)
    /\ "filter_years" \in DOMAIN r => r["filter_years"] = Join(a.filterYears.v)
    /\ "filter_months" \in DOMAIN r <=> Selected(a.filterMonths)
    /\ "filter_months" \in DOMAIN r => r["filter_months"] = Join(a.filterMonths.v)
    /\ "video_type" \in DOMAIN r <=> a.videoType # "all"
    /\ "video_type" \in DOMAIN r => r["video_type"] = a.videoType

\* C21 as stated: the archive query leaves out every filter that is at its
\* default, the search text included: q is absent when the search text is
\* empty; collab and collab_mode, hide_unarchived, filter_dates, filter_years,
\* filter_months and video_type are absent at their defaults; each is present
\* with its value otherwise.
C21_QueryOmitsEveryDefault ==
    call.fn = "searchLocalDb" =>
        /\ "q" \in DOMAIN call.result <=> call.args.query # NoQuery
        /\ "q" \in DOMAIN call.result => call.result["q"] = call.args.query
        /\ FiltersOmittedAtDefault(call.args, call.result)

\* C21, amended: q is always sent, empty when there is no search text; the
\* other filters are left out at their defaults and sent with their values
\* otherwise.
C21_QueryOmitsDefaultsButSearchText ==
    call.fn = "searchLocalDb" =>
        /\ "q" \in DOMAIN call.result
        /\ call.result["q"] = call.args.query
        /\ FiltersOmittedAtDefault(call.args, call.result)

\* a query compiled from a state with every filter at its default
C21_Witness ==
    /\ call.fn = "searchLocalDb"
    /\ call.args.query = NoQuery
    /\ call.args.collab = JsStr(<<>>)
    /\ call.args.filterYears = JsNull
    /\ DOMAIN call.result = {"q", "channel_id", "offset", "limit"}
    /\ call.result["q"] = <<>>

\* the collaborator checkboxes in ascending order of their values
SortedCheckboxes == <<"mA", "mB">>

\* C22 as stated: the collaborator list of the query is emitted sorted and
\* comma-joined, so that the same members ticked in another order compile to
\* the same query.
C22_CollabEmittedSorted ==
    call.fn = "collabApply" =>
        LET ticked == Ticked(call.args.clicks)
        IN  /\ "collab" \in DOMAIN call.result <=> ticked # {}
            /\ ticked # {} =>
                  call.result["collab"]
                      = Join(SelectSeq(SortedCheckboxes, LAMBDA v : v \in ticked))

\* C22, amended: the collaborator list of the query is the ticked members in
\* the document order of their checkboxes, comma-joined and not sorted; it
\* depends on which boxes are ticked and not on the order of the clicks, so the
\* same members ticked in another order compile to the same query.
C22_CollabInDocumentOrder ==
    call.fn = "collabApply" =>
        LET ticked == Ticked(call.args.clicks)
            r == call.result
        IN  /\ "collab" \in DOMAIN r <=> ticked # {}
            /\ ticked # {} =>
                  \E list \in [1..Cardinality(ticked) -> ticked] :
                      /\ r["collab"] = Join(list)
                      /\ \A i, j \in DOMAIN list :
                            i < j => \E a, b \in DOMAIN CollabCheckboxes :
                                        /\ a < b
                                        /\ CollabCheckboxes[a] = list[i]
                                        /\ CollabCheckboxes[b] = list[j]

\* both members were ticked, the later one in the document first
C22_Witness ==
    /\ call.fn = "collabApply"
    /\ call.args.clicks = <<"mA", "mB">>
    /\ call.result["collab"] = <<"mB", ",", "mA">>

\* the dates the calendar holds for a quick selection
QuickDates(years, months) ==
    IF years = <<>> THEN <<>>
    ELSE SortDates(AllDates(years, IF months = <<>> THEN AllMonths ELSE months))

\* C24 as stated: the quick selection and the explicit dates are independent:
\* a click on a year or month button never changes the dates picked, and a
\* click on a day of the calendar never changes the quick selection.
C24_QuickAndExplicitIndependent ==
    [][/\ (YearButtonClick \/ MonthButtonClick) => selectedDates' = selectedDates
       /\ CalendarClick => /\ selectedQuickYears' = selectedQuickYears
                           /\ selectedQuickMonths' = selectedQuickMonths]_vars

\* C24, amended: the quick selection and the dates picked in the calendar
\* replace each other: a click on a year button, or on a month button while a
\* year is selected, replaces the dates by every date of the selected years
\* and months (by none when no year is left), and a click on a day of the
\* calendar clears the quick selection and keeps the dates picked.
C24_QuickAndExplicitReplaceEachOther ==
    [][/\ (YearButtonClick \/ (MonthButtonClick /\ selectedQuickYears # <<>>))
             => selectedDates' = QuickDates(selectedQuickYears', selectedQuickMonths')
       /\ CalendarClick => /\ selectedQuickYears' = <<>>
                           /\ selectedQuickMonths' = <<>>
                           /\ \E d \in {selectedDates'[i] : i \in DOMAIN selectedDates'}
                                     \cup {selectedDates[i] : i \in DOMAIN selectedDates} :
                                  {selectedDates'[i] : i \in DOMAIN selectedDates'}
                                      \in {{selectedDates[i] : i \in DOMAIN selectedDates} \cup {d},
                                           {selectedDates[i] : i \in DOMAIN selectedDates} \ {d}}]_vars

\* a day was picked in the calendar after a quick selection: the dates of the
\* quick selection and the day picked are held, the quick selection is gone
C24_Witness ==
    /\ selectedQuickYears = <<>>
    /\ selectedQuickMonths = <<>>
    /\ Len(selectedDates) = Len(AllMonths) + 1
    /\ monthClickListeners > 0

\* the archive requests this step sends
SentNow == {i \in DOMAIN fetches' : fetches'[i].stream = "archive" /\ fetches'[i].id >= nextId}

AutoLoads == SelectSeq(pendingLoads, LAMBDA l : l.stream = "live" /\ l.auto)

\* C25: the polling guard. At most one load started by the auto-refresh timer
\* is in flight, and isAutoRefreshInFlight is set exactly while it is; at most
\* one request of the live polling timer is in flight, and
\* isLivePollingInFlight is set exactly while it is. A flag is cleared when
\* the work settles, with an answer or with a failure.
C25_OneTickOfATimerInFlight ==
    /\ Len(AutoLoads) <= 1
    /\ isAutoRefreshInFlight <=> AutoLoads # <<>>
    /\ isLivePollingInFlight <=> pollWait \in FetchIds
    /\ ~isLivePollingInFlight => pollWait = 0

\* both timers have work in flight at once, each one tick of it
C25_Witness ==
    /\ isAutoRefreshInFlight
    /\ isLivePollingInFlight
    /\ Len(AutoLoads) = 1
    /\ pollWait \in FetchIds

ActiveIntervals(fn) == {x \in timers.active : x.fn = fn}
IntervalOf(handle, fn) == IF handle = 0 THEN {} ELSE {[id |-> handle, fn |-> fn]}

\* C26: polling pauses while the document is hidden and resumes when it is
\* on screen again. The only intervals running are the ones the two handles
\* name, so never two of a kind; while the document is on screen there is
\* exactly one auto-refresh interval and exactly one live polling interval,
\* whatever sequence of hidden and visible came before; and no tick of either
\* timer starts work while the document is hidden.
C26_PollingPausesWhileHidden ==
    /\ [](/\ ActiveIntervals("refresh") = IntervalOf(refreshInterval, "refresh")
          /\ ActiveIntervals("polling") = IntervalOf(pollingInterval, "polling")
          /\ timers.active = ActiveIntervals("refresh") \cup ActiveIntervals("polling")
          /\ ~documentHidden => refreshInterval # 0 /\ pollingInterval # 0)
    /\ [][AutoRefreshTick \/ LivePollingTick => ~documentHidden]_vars

\* the document is on screen again after it was hidden, both timers restarted
C26_Witness ==
    /\ ~documentHidden
    /\ timers.next >= 5
    /\ Cardinality(ActiveIntervals("refresh")) = 1
    /\ Cardinality(ActiveIntervals("polling")) = 1

\* the answers of a request that failed: a network error, a status that is not
\* a success, or a null body
LiveFailures == {r \in LiveResponses : ~r.ok}
ArchiveFailures == {r \in ArchiveResponses : r.kind \in {"fail", "null"}}
ClipFailures == {r \in ClipResponses : ~r.ok}

\* what the step made of the failure for the loads of stream s it resolved:
\* the message of the load whose serial is current, nothing for the others,
\* and no load, serial or state change besides
FailureHandled(s, kinds) ==
    LET current == {l \in ResolvedNow : l.serial = requestSerials[s]}
    IN  /\ current # {} =>
               \E l \in current : /\ container'[s].kind \in kinds
                                   /\ container'[s].load = l.id
        /\ current = {} => container'[s] = container[s]
        /\ \A t \in Streams \ {s} : container'[t] = container[t]
        /\ requestSerials' = requestSerials
        /\ appState' = appState
        /\ nextId' = nextId

\* C27: a failed request never makes a load reject. The load turns the
\* failure into the error message or the empty state of its container, and
\* only when the serial it captured is still current; a superseded load
\* whose request failed renders nothing.
C27_FailureRenderedOnlyWhenCurrent ==
    [][/\ \A r \in LiveFailures : LiveSettleWith(r) => FailureHandled("live", {"empty", "error"})
       /\ \A r \in ArchiveFailures :
              ArchiveSettleWith(r) => FailureHandled("archive", {"empty", "sync", "error"})
       /\ \A r \in ClipFailures : ClipsSettleWith(r) => FailureHandled("clips", {"empty", "error"})
      ]_vars

\* the error message of a load of archives whose request came back null
C27_Witness ==
    /\ container["archive"].kind = "error"
    /\ requestSerials["archive"] >= 2

SyncStatusFailures == {r \in SyncStatusResponses : ~r.ok}

\* the step left the state store and the clip cache as they were
StoreAndCacheUntouched == appState' = appState /\ clipCache' = clipCache

\* C28: network errors never reach the state store or the cache. A step in
\* which a request for clips, archives, live streams, the sync status or the
\* start of a sync fails leaves every field of the state store, isSyncing
\* among them, and every cache entry as they were.
C28_FailuresNeverReachStoreOrCache ==
    [][/\ \A r \in LiveFailures : LiveSettleWith(r) => StoreAndCacheUntouched
       /\ \A r \in ArchiveFailures : ArchiveSettleWith(r) => StoreAndCacheUntouched
       /\ \A r \in ClipFailures : ClipsSettleWith(r) => StoreAndCacheUntouched
       /\ \A r \in SyncStatusFailures : SyncStatusSettleWith(r) => StoreAndCacheUntouched
       /\ SyncTriggerSettleWith(FALSE) => StoreAndCacheUntouched
      ]_vars

\* C29: the last dispatched request wins. When every dispatched request
\* settles in the end, a container that shows the loading text comes to show
\* the outcome of the load dispatched last for its stream, and a container
\* never shows the outcome of an earlier load once a newer one was dispatched.
C29_LastDispatchedWins ==
    \A s \in Streams :
        /\ (container[s].kind = "loading")
               ~> (container[s].kind \in ResultKinds /\ container[s].root = lastUser[s])
        /\ [](container[s].kind \in ResultKinds => container[s].root = lastUser[s])

\* C30: once no archive request is in flight, the archive list on screen was
\* fetched for the channel and the page the state store holds: the archive
\* view shows a result of a load for currentChannelId and archivePage.
C30_ArchiveOnScreenMatchesState ==
    (/\ appState.currentView = "archive"
     /\ FetchesOf("archive") = <<>>
     /\ container["archive"].kind \in ResultKinds)
    => /\ container["archive"].channelId = appState.currentChannelId
       /\ container["archive"].page = appState.archivePage

JsonResponses == {r \in ArchiveResponses : r.kind = "json"} \cup {OnePageResponse}
NewLoads == {pendingLoads'[k] : k \in {j \in DOMAIN pendingLoads' : pendingLoads'[j].id >= nextId}}

\* C31: the page-overflow redirect terminates. An archive response with
\* total > 0 for a page beyond ceil(total / 32) sets archivePage to that last
\* page and reloads exactly that page, so the reload's response, when the
\* total is unchanged, is for a page within range: it starts no further load
\* and, when its serial is current, is rendered, with the rendered page and
\* archivePage both between 1 and ceil(total / 32).
C31_PageOverflowRedirectTerminates ==
    [][\A r \in JsonResponses : ArchiveSettleWith(r) =>
          \A l \in ResolvedNow :
              LET lastPage == CeilDiv(r.total, ITEMS_PER_PAGE)
              IN  IF l.page > lastPage
                  THEN /\ appState'.archivePage = lastPage
                       /\ \E n \in NewLoads : /\ n.page = lastPage
                                               /\ n.channelId = l.channelId
                                               /\ n.stream = "archive"
                       /\ Cardinality(NewLoads) = 1
                  ELSE /\ NewLoads = {}
                       /\ l.serial = requestSerials["archive"] =>
                              /\ container'["archive"].kind = "items"
                              /\ container'["archive"].load = l.id
                              /\ container'["archive"].page \in 1..lastPage
                              /\ appState'.archivePage \in 1..lastPage
      ]_vars

\* the page a redirect reloaded is on screen, and it is the page of the store
C31_Witness ==
    /\ container["archive"].kind = "items"
    /\ container["archive"].root # container["archive"].load
    /\ container["archive"].page = appState.archivePage

\* C32: the channel profile follows the latest selection. The profile panel
\* shows the channel the store holds as current, in whatever order the channel
\* info responses arrive and whether or not an info came from the cache.
C32_ProfileFollowsLatestSelection ==
    profile.shown.channel = appState.currentChannelId

SyncRequestsPending == sync.requests # <<>>
StatusChecksPending == \E i \in DOMAIN sync.requests : sync.requests[i] = "status"

\* C33: sync-status responses that arrive out of order cannot resurrect a
\* finished sync. Once a not-syncing status has stopped the polling (no
\* interval, isSyncing false, search input enabled), a late response to an
\* earlier status check never sets isSyncing to true and never disables the
\* search input again; and whenever no interval is active and no sync request
\* is pending, isSyncing is false.
C33_LateStatusCannotResurrectSync ==
    /\ [][\A r \in SyncStatusResponses :
             (/\ SyncStatusSettleWith(r)
              /\ StatusChecksPending
              /\ ~sync.interval /\ ~appState.isSyncing /\ ~sync.searchDisabled)
             => ~appState'.isSyncing /\ ~sync'.searchDisabled]_vars
    /\ []((~sync.interval /\ ~SyncRequestsPending) => ~appState.isSyncing)

\* C34: a sync trigger that fails leaves no sync behind. When the request of
\* startFullSync fails, no status polling starts and, unless the polling of
\* another sync is running, isSyncing is false afterwards; isSyncing is true
\* only while a sync request is pending or the status polling is active.
\* (The overlay, which the failure path hides, is not part of the model.)
C34_FailedTriggerLeavesNoSync ==
    /\ [][SyncTriggerSettleWith(FALSE) =>
             /\ sync'.interval = sync.interval
             /\ Len(sync'.requests) = Len(sync.requests) - 1
             /\ ~sync.interval => ~appState'.isSyncing]_vars
    /\ [](appState.isSyncing => (sync.interval \/ SyncRequestsPending))

(***************************************************************************)
(* C35: the handlers of the date tab act once for one click.  After the    *)
(* date tab has been opened any number of times, one click on a month      *)
(* button, a year being selected, changes whether that month is among      *)
(* selectedQuickMonths and leaves the other months as they were, and one   *)
(* click on the previous year or the next year button moves the base year  *)
(* of the year buttons by exactly one.                                     *)
(***************************************************************************)
MonthToggledOnce(month) ==
    /\ Includes(selectedQuickMonths', month) # Includes(selectedQuickMonths, month)
    /\ \A other \in DateTabMonths \ {month} :
           Includes(selectedQuickMonths', other) = Includes(selectedQuickMonths, other)

\* the month half
MonthClickTogglesOnce ==
    [][\A month \in DateTabMonths :
          (MonthButtonClickOn(month) /\ Len(selectedQuickYears) > 0)
              => MonthToggledOnce(month)]_vars

\* the year half
YearNavigationMovesByOne ==
    /\ [][PrevYearClick => quickSelectBaseYear' = quickSelectBaseYear - 1]_vars
    /\ [][NextYearClick => quickSelectBaseYear' = quickSelectBaseYear + 1]_vars

\* C35: one click on a month button toggles that month once, and one click on
\* a year navigation button moves the base year by one, however often the
\* date tab was opened
C35_DateHandlersActOncePerClick == MonthClickTogglesOnce /\ YearNavigationMovesByOne

(***************************************************************************)
(* C36: a reset of the filters leaves no selection pending.  After         *)
(* resetAllFilters, which runs when the view leaves the archive, or        *)
(* selectChannel has cleared the date, year and month filters of the       *)
(* store, selectedDates, selectedQuickYears and selectedQuickMonths are    *)
(* empty, so that the apply button pressed next applies no date, year or   *)
(* month filter.                                                           *)
(***************************************************************************)
PendingSelectionEmpty(m) ==
    /\ m.selectedDates = <<>>
    /\ m.selectedQuickYears = <<>>
    /\ m.selectedQuickMonths = <<>>

NoDateFilter(state) ==
    /\ state.filterDates = JsArr(<<>>)
    /\ state.filterYears \in {JsNull, JsArr(<<>>)}
    /\ state.filterMonths \in {JsNull, JsArr(<<>>)}

\* the selectChannel half: the step leaves nothing pending
SelectChannelLeavesNothingPending ==
    [][SelectChannel => (NoDateFilter(appState') /\ selectedDates' = <<>>
                           /\ selectedQuickYears' = <<>> /\ selectedQuickMonths' = <<>>)]_vars

\* the resetAllFilters half: the step that leaves the archive leaves nothing pending
ResetAllFiltersLeavesNothingPending ==
    [][SwitchToHome => (NoDateFilter(appState') /\ selectedDates' = <<>>
                          /\ selectedQuickYears' = <<>> /\ selectedQuickMonths' = <<>>)]_vars

\* the apply button pressed right after either reset applies no filter
ApplyAfterResetAppliesNothing ==
    /\ NoDateFilter(ApplyDateClickCall(ResetAllFilters(Cur)).appState)
    /\ \A c \in Channels :
           NoDateFilter(ApplyDateClickCall(SelectChannelCall(Cur, c, FALSE)).appState)

\* C36: after resetAllFilters or selectChannel the pending selection is empty
\* and the apply button applies no date, year or month filter
C36_ResetsLeaveNothingPending ==
    /\ SelectChannelLeavesNothingPending
    /\ ResetAllFiltersLeavesNothingPending
    /\ []ApplyAfterResetAppliesNothing

(***************************************************************************)
(* C37: restoreStateFromHash takes valid values only.  For every hash the  *)
(* restored view is one of home, live, archive and clips, the video type   *)
(* is all or music, the channel is a known one or the default, and both    *)
(* page counters are at least 1; a channel, view or video type that is not *)
(* known, and a page that is zero, negative or no number, leave the        *)
(* default, and the page goes to the counter of the restored view only.    *)
(***************************************************************************)
\* the page of the hash is written as a positive whole number
AllDigits(chars) == chars # <<>> /\ \A i \in DOMAIN chars : IsDigit(chars[i])

\* the page of the hash is missing, or does not start with a number, or is a
\* whole number that is zero or negative
BadPage(page) ==
    \/ page = <<>>
    \/ LET chars == page[1]
           unsigned == IF chars # <<>> /\ Head(chars) \in {"-", "+"}
                       THEN Tail(chars) ELSE chars
       IN  \/ unsigned = <<>>
           \/ ~IsDigit(Head(unsigned))
           \/ AllDigits(unsigned) /\ DecimalValue(unsigned) = 0
           \/ AllDigits(unsigned) /\ Head(chars) = "-"

C38_HashRoundTrip ==
    call.fn = "hashRoundTrip" =>
        LET r == call.result
            st == call.args
        IN  /\ r.currentChannelId = st.currentChannelId
            /\ r.currentView = st.currentView
            /\ st.currentView = "archive" =>
                   r.archivePage = st.archivePage /\ r.videoType = st.videoType
            /\ st.currentView = "clips" => r.clipsPage = st.clipsPage

\* page 12 of the clips went through the hash, next to another archive page
C38_Witness ==
    /\ call.fn = "hashRoundTrip"
    /\ call.args.currentView = "clips"
    /\ call.args.clipsPage = 12
    /\ call.args.archivePage = 3
    /\ call.result.clipsPage = 12

(***************************************************************************)
(* C39: the numbered buttons of the pagination.                            *)
(***************************************************************************)
\* the page numbers on the numbered buttons, in document order
RECURSIVE PageNumbersShown(_)
PageNumbersShown(elements) ==
    IF elements = <<>> THEN <<>>
    ELSE LET e == Head(elements)
         IN  (IF e.tag = "button" /\ e.text \notin {<<"<">>, <<">">>} THEN <<e.page>>
              ELSE <<>>) \o PageNumbersShown(Tail(elements))

Consecutive(first, n) == [k \in 1..n |-> first + k - 1]

PrevButton(elements) == elements[1]

NextButton(elements) == elements[Len(elements) - 1]

\* what C39 says of the buttons apart from the numbers of more than ten pages
PaginationSmallAndEnds(a, r) ==
    /\ a.totalPages <= 1 => r = <<>>
    /\ (2 <= a.totalPages /\ a.totalPages <= maxVisible) =>
           PageNumbersShown(r) = Consecutive(1, a.totalPages)
    /\ a.totalPages >= 2 =>
           /\ PrevButton(r).text = <<"<">>
           /\ PrevButton(r).disabled <=> a.currentPage = 1
           /\ NextButton(r).text = <<">">>
           /\ NextButton(r).disabled <=> a.currentPage = a.totalPages

\* the go button changes the page to a whole number of 1..totalPages or not at all
GoChangesToPageInRange ==
    call.fn = "goButtonClick" =>
        /\ call.result \in 0..call.args.totalPages
        /\ call.args.inputValue \in {<<>>, <<"0">>, <<"-", "1">>, <<"a">>,
                                      Digits(call.args.totalPages + 1)}
               => call.result = 0

====
